---- MODULE Spec2Model ----
(***************************************************************************)
(* Modbus RTU bus engine (ModbusRTUFeature) and the poll scheduler of the  *)
(* device manager (ModbusDeviceManager::loop), modelled as a state machine.*)
(*                                                                         *)
(* The engine is advanced by loop() ("Tick"), which in this order          *)
(*   1. drains the UART and runs the extractor (processReceivedData),      *)
(*   2. checks the response timeout of the in-flight request,              *)
(*   3. calls processQueue() when a quiet window is found (fast path or    *)
(*      bounded arbitration, during which more frames may be extracted).   *)
(* Time is the 32-bit millis() counter; micro-second bus timing is the     *)
(* subject of the separate transmit-arbitration specification SpecTx.      *)
(***************************************************************************)
EXTENDS Integers, Sequences, FiniteSets, TLC

\* ------------------------------------------------------------------------
\* Bounds of the model
\* ------------------------------------------------------------------------
MaxQueueSize == 2
MaxTime == 1500
QueueRequests == 3
QueueMaxTime == 2002
PauseMaxTime == 6006
BackoffMaxTime == 135000
BackoffRequests == 3
SchedMaxTime == 8008
PollIntervalMs == 1001
TxMaxMicros == 1100000
TxMaxQuietUs == 12000
TxMaxBytes == 2
TxLoopGapUs == 2000
TxByteGridUs == 500
LiveMaxTime == 2002
MaxDiscarded == 2
AdmitMaxTime == 3003
BytesTimeStep == 2000
BytesMaxTime == 2000
ExcMaxTime == 5005
FifoRequests == 6
FifoMaxTime == 3003
SchemaMaxDefs == 3

\* ------------------------------------------------------------------------
\* Program constants
\* ------------------------------------------------------------------------
ResponseTimeoutMs == 1000
InitialBackoffMs == 2000
MaxBackoffMs == 60000
PauseThreshold == 3
PairWindowMs == 2000
QUEUE_RETRY_COOLDOWN_MS == 250
BaudRate == 9600
BitsPerChar == 10
TX_ARBITRATION_WINDOW_US == 8000
ArbDelayUs == 50
TransceiverDelayUs == 100
RequestFrameBytes == 8
MAX_RTU_UNIT_ID == 247
MAX_REGS_PER_READ == 125
GAP_ALLOW_REGS == 0
MAX_BYTECOUNT == 250
READ_COILS == 1
READ_DISCRETE_INPUTS == 2
FC3 == 3
FC4 == 4
WRITE_SINGLE_COIL == 5
WRITE_SINGLE_REGISTER == 6
WRITE_MULTIPLE_REGISTERS == 16
FC3_EX == 131
FC4_EX == 132

UnitA == 1
UnitB == 2
Units == {UnitA, UnitB}

\* ------------------------------------------------------------------------
\* 32-bit unsigned arithmetic of millis(). The clock of this model stays
\* below 2^31, so a sum never wraps and a difference a - b wraps exactly when
\* a < b; the wrapped value is then above 2^31, larger than every threshold
\* it is compared with, and is represented by WrappedDiff.
\* ------------------------------------------------------------------------
WrappedDiff == 2147483647

Add32(a, b) == a + b

Sub32(a, b) == IF a >= b THEN a - b ELSE WrappedDiff

\* a < b of two uint32_t. Where the clock runs through the wrap of the
\* counter (SpecHistory, SpecWrap) a value from 2^31 up is held as the
\* negative number of the same 32 bits (2^32 - 1 as -1), which is larger
\* than every value below 2^31.
Less32(a, b) == IF (a >= 0) = (b >= 0) THEN a < b ELSE a >= 0

\* (int32_t)(a - b) < 0
timeBefore32(a, b) == a < b

\* fc & 0x7F
FcBase(fc) == fc % 128

Min(S) == CHOOSE x \in S : \A y \in S : x <= y

\* std::min<uint32_t>
MinOf(a, b) == IF a < b THEN a ELSE b

\* ------------------------------------------------------------------------
\* Data
\* ------------------------------------------------------------------------
\* ModbusPendingRequest. id is a ghost naming the enqueue call; cb is the
\* completion: "none" (nullptr), "user" (a caller's continuation) or "poll"
\* (the device manager's poll lambda).
NoRequest ==
  [id |-> 0, unitId |-> 0, functionCode |-> 0, startRegister |-> 0,
   quantity |-> 0, writeData |-> <<>>, cb |-> "none"]

MkRequest(id, u, fc, start, qty, wd, cb) ==
  [id |-> id, unitId |-> u, functionCode |-> fc, startRegister |-> start,
   quantity |-> qty, writeData |-> wd, cb |-> cb]

\* TimeoutBackoffState{}: also the value of a unit that has no map entry.
DefaultBackoff ==
  [consecutiveTimeouts |-> 0, backoffMs |-> InitialBackoffMs, pausedUntilMs |-> 0]

\* An entry of _lastRequestPerUnit (always CRC-valid with a 4-byte payload).
NoSeenRequest ==
  [present |-> FALSE, functionCode |-> 0, startRegister |-> 0, quantity |-> 0,
   timestamp |-> 0]

\* ModbusRegisterValue of a mapped device before its first poll
NewValue == [valid |-> FALSE]

\* ModbusStats after construction (the counters the enqueue functions move)
NoStats == [queueOverflows |-> 0, ownRequestsDiscarded |-> 0]

\* The web server task outside the enqueue functions. pc is its position in
\* queueReadRegisters ("idle" outside, "checked" after the admission checks,
\* "push" inside push_back after the end of the vector has been read), req
\* the request it enqueues, seenEnd the vector length it read and seenLast
\* the element then in the last slot. accepted (ghost) holds the ids of the
\* requests an enqueue function has accepted, left (ghost) the ids loop() has
\* taken out of the queue.
WebIdle ==
  [pc |-> "idle", req |-> NoRequest, seenEnd |-> 0, seenLast |-> NoRequest,
   accepted |-> {}, left |-> {}]

\* Ghost: by how much the last step raised successCount and errorCount of
\* the device
NoCount == [success |-> 0, error |-> 0]

\* A ModbusDeviceInstance before a device type is loaded. registers is
\* deviceType->registers, plan the fields functionCode, startAddress,
\* quantity and pollIntervalMs of pollBatches, values is currentValues (by
\* register name) and unknownU16 the map of that name (address -> word).
\* mapped says whether _devices holds the instance, lastSeenRequests is the
\* manager's map of that name (the last CRC-valid request seen per unit).
\* notified (ghost) lists the calls of notifyValueChange of the last step,
\* op (ghost) says what the last step was.
NoDevice ==
  [mapped |-> FALSE, registers |-> <<>>, plan |-> <<>>, values |-> << >>,
   unknownU16 |-> << >>,
   lastSeenRequests |-> [u \in Units |-> NoSeenRequest],
   notified |-> <<>>, counted |-> NoCount, op |-> [kind |-> "none"]]

\* The unit id of the one mapped device of the device manager
DeviceUnit == UnitA

\* ModbusPollBatch: the scheduling fields of the one batch of a device
NewBatch == [lastPollMs |-> 0, lastAttemptMs |-> 0]

\* The micro-second state after begin(): pc is the position in loop()
\* ("idle" between calls, "drain" in the read loop, "check" before the
\* empty-buffer check, "arb" in the arbitration loop); micros is the clock,
\* available the number of bytes in the UART. seenActivityUs (ghost) is the
\* time of the last byte read or of the end of the last transmission,
\* arrived (ghost) the number of bytes the bus has delivered.
TxBegin ==
  [pc |-> "idle", micros |-> 0, available |-> 0, nowUs |-> 0,
   serialWasEmpty |-> TRUE, serialEmptySinceUs |-> 0, lastByteTime |-> 0,
   startUs |-> 0, lastRxUs |-> 0, seenActivityUs |-> 0, arrived |-> 0]

\* The two bytes of a 16-bit word (x >> 8, x & 0xFF)
HiByte(x) == (x \div 256) % 256

LoByte(x) == x % 256

\* A ModbusFrame as the extractor emits it. data is the payload between the
\* function code and the CRC; byteCount, startRegister and quantity are what
\* getByteCount, getStartRegister and getQuantity return for the frame. The
\* frames of a spec-sized candidate carry registers that are all 0 and no
\* exception code.
MkFrame(u, fc, valid, isReq, isExc, bc, start, qty) ==
  [unitId |-> u, functionCode |-> fc, isValid |-> valid, isRequest |-> isReq,
   isException |-> isExc, byteCount |-> bc, startRegister |-> start,
   quantity |-> qty, exceptionCode |-> 0,
   data |-> IF isReq
            THEN <<HiByte(start), LoByte(start), HiByte(qty), LoByte(qty)>>
            ELSE IF bc > 0 THEN <<bc>> \o [i \in 1..bc |-> 0]
            ELSE <<>>]

\* A spec-sized candidate in the RX buffer, described by what its bytes hold:
\* kind "req" (8 bytes), "resp" (byteCount + 5 bytes) or "exc" (5 bytes).
\* reqShaped says that the first 8 bytes of a response, read as a request,
\* carry a quantity in 1..125 (and that 8 bytes are available).
MkCand(kind, u, fc, crcOk, bc, start, qty, reqShaped) ==
  [kind |-> kind, unitId |-> u, functionCode |-> fc, crcOk |-> crcOk,
   byteCount |-> bc, startRegister |-> start, quantity |-> qty,
   reqShaped |-> reqShaped]

\* Ghost record of what the last step did: the frame that released the
\* in-flight request, the timeout that fired, the call of processQueue, the
\* run of the device manager's scheduler and the unit it queued a poll for,
\* the path ("fast", "arb") on which loop() called processQueue, whether the
\* UART was then last seen empty, and the time since the last bus activity
\* the engine has seen (a byte read, the end of its own transmission), and
\* the enqueue call made (its request, whether free heap was below 25000,
\* and the value it returned), by how much the step raised
\* _stats.otherRequestsSeen and the requestCount of the register maps, and
\* whether a request frame was taken for the echo of the in-flight request,
\* whether the release called the completion of the request and with which
\* success flag, and by how much the step raised _stats.ownRequestsSuccess,
\* _stats.ownRequestsFailed, _stats.ownRequestsSent and _stats.timeouts.
NoRelease ==
  [happened |-> FALSE, frame |-> MkFrame(0, 0, FALSE, FALSE, FALSE, 0, 0, 0),
   req |-> NoRequest, backoffBefore |-> DefaultBackoff,
   cbCalled |-> FALSE, cbSuccess |-> FALSE]

\* Ghost record of one run of the extractor: the frames it handed on (to the
\* frame history and the frame callback) and the number of bytes by which
\* its index advanced in each turn of its loop.
NoRx == [emitted |-> <<>>, advances |-> <<>>]

EmptyEv ==
  [released |-> NoRelease, timedOut |-> FALSE,
   toReq |-> NoRequest, toNow |-> 0, toElapsed |-> 0, toBackoff |-> [u \in Units |-> DefaultBackoff],
   toQueueBefore |-> <<>>, toQueueAfter |-> <<>>,
   pqCalled |-> FALSE, pqInFlight |-> FALSE, pqQueue |-> <<>>, pqPaused |-> {},
   sent |-> NoRequest, schedRan |-> FALSE, schedQueued |-> 0,
   txPath |-> "", txObservedEmpty |-> FALSE, txQuietUs |-> 0,
   enqCalled |-> FALSE, enqReq |-> NoRequest, enqHeapLow |-> FALSE,
   enqResult |-> FALSE, otherRequestsSeen |-> 0, mapRequestCount |-> 0,
   echoSeen |-> FALSE, ownRequestsSuccess |-> 0, ownRequestsFailed |-> 0,
   ownRequestsSent |-> 0, timeouts |-> 0]

\* ------------------------------------------------------------------------
\* CRC-16 of Modbus RTU
\* ------------------------------------------------------------------------
\* Bit k of x, k a power of two
BitOf(x, k) == (x \div k) % 2

\* x with bit k inverted
FlipBit(x, k) == IF BitOf(x, k) = 1 THEN x - k ELSE x + k

\* crc ^ byte: the exclusive or reaches the low byte of crc only
XorByte(crc, byte) ==
  LET X(k) == k * ((BitOf(crc, k) + BitOf(byte, k)) % 2)
  IN (crc \div 256) * 256
     + X(1) + X(2) + X(4) + X(8) + X(16) + X(32) + X(64) + X(128)

CrcInit == 65535

\* x ^ 0xA001: bits 15, 13 and 0 are inverted
XorPolynomial(x) == FlipBit(FlipBit(FlipBit(x, 32768), 8192), 1)

\* The values of a uint16_t
Word16 == 0..65535

\* The eight turns of the inner loop of calculateCRC, CrcShift being one
\* turn: if (crc & 0x0001) crc = (crc >> 1) ^ 0xA001; else crc >>= 1
CrcShift8(crc) ==
  LET CrcShift == [c \in Word16 |->
                     IF c % 2 = 1 THEN XorPolynomial(c \div 2) ELSE c \div 2]
  IN CrcShift[CrcShift[CrcShift[CrcShift[
       CrcShift[CrcShift[CrcShift[CrcShift[crc]]]]]]]]

\* The outer loop of calculateCRC from byte i (from 1) on
RECURSIVE CrcFrom(_, _, _)
CrcFrom(crc, data, i) ==
  IF i > Len(data) THEN crc
  ELSE CrcFrom(CrcShift8(XorByte(crc, data[i])), data, i + 1)

\* ModbusRTUFeature::calculateCRC
calculateCRC(data) == CrcFrom(CrcInit, data, 1)

VARIABLES
  now,                 \* millis()
  requestQueue,        \* _requestQueue
  currentRequest,      \* _currentRequest (kept after release)
  hasPendingRequest,   \* _hasPendingRequest
  waitingForResponse,  \* _waitingForResponse
  requestSentTime,     \* _requestSentTime
  backoffByUnit,       \* _backoffByUnit
  lastRequestPerUnit,  \* _lastRequestPerUnit
  pollBatches,         \* device manager: unit -> its poll batch
  tx,                  \* micro-second state of loop(): clock, UART, silence tracking
  loopCounter,         \* _loopCounter modulo 2 (followed in SpecLive only)
  nextId,              \* ghost: number of enqueue calls so far
  completions,         \* ghost: id -> number of completion invocations
  currentValues,       \* device manager: unit -> cached value of its polled register
  registerMaps,        \* _registerMaps: <<unit, fc>> -> registers (address -> value)
  stats,               \* _stats: the counters of rejected enqueues
  web,                 \* the web server task inside queueReadRegisters (SpecRace)
  suspended,           \* _suspended
  dm,                  \* the device manager: schema, poll plan and values of one device
  frameHistory,        \* _frameHistory and _frameHistoryIndex, and (ghost) the frames recorded
  ev                   \* ghost: what the last step did

vars == <<now, requestQueue, currentRequest, hasPendingRequest,
          waitingForResponse, requestSentTime, backoffByUnit,
          lastRequestPerUnit, pollBatches, tx, loopCounter, nextId, completions, currentValues, registerMaps, stats, web, suspended, dm, frameHistory, ev>>

\* ------------------------------------------------------------------------
\* Engine state as a record, so that the steps of one handler compose
\* ------------------------------------------------------------------------
EngineState ==
  [q |-> requestQueue, cur |-> currentRequest, has |-> hasPendingRequest,
   waiting |-> waitingForResponse, sentTime |-> requestSentTime,
   backoff |-> backoffByUnit, lastReq |-> lastRequestPerUnit,
   compl |-> completions, vals |-> currentValues, regs |-> registerMaps,
   stats |-> stats,
   ev |-> EmptyEv, rx |-> NoRx]

\* ModbusRTUFeature::isUnitQueueingPaused
isUnitQueueingPaused(backoff, unitId, nowMs) ==
  LET st == backoff[unitId] IN
  IF st.consecutiveTimeouts <= 2 THEN FALSE
  ELSE timeBefore32(nowMs, st.pausedUntilMs)

\* quantity plausibility used by the extractor
QtyPlausible(qty) == qty >= 1 /\ qty <= MAX_REGS_PER_READ

\* byteCount plausibility of an FC3/FC4 response
ByteCountPlausible(bc) == bc >= 2 /\ bc % 2 = 0 /\ bc <= MAX_BYTECOUNT

\* The byte-count cross-check of a response candidate: TRUE when the
\* candidate must be treated as noise.
ByteCountGateRejects(s, c, nowMs) ==
  IF s.waiting /\ s.has /\ c.unitId = s.cur.unitId
     /\ FcBase(s.cur.functionCode) = c.functionCode
  THEN QtyPlausible(s.cur.quantity) /\ c.byteCount # 2 * s.cur.quantity
  ELSE LET req == s.lastReq[c.unitId] IN
       /\ req.present
       /\ FcBase(req.functionCode) = c.functionCode
       /\ Sub32(nowMs, req.timestamp) < PairWindowMs
       /\ QtyPlausible(req.quantity)
       /\ c.byteCount # 2 * req.quantity

NoFrame == MkFrame(0, 0, FALSE, FALSE, FALSE, 0, 0, 0)

\* One iteration of the extractor loop at a candidate: the emitted frame,
\* or NoFrame when the extractor treats the position as noise.
ExtractCandidate(s, c, nowMs) ==
  IF c.unitId = 0 \/ c.unitId > MAX_RTU_UNIT_ID THEN NoFrame
  ELSE IF c.functionCode \in {FC3_EX, FC4_EX}
  THEN \* parseFrame sets isException only when the CRC matches
       IF c.kind = "exc" /\ c.crcOk
       THEN MkFrame(c.unitId, c.functionCode, TRUE, FALSE, TRUE, 0, 0, 0)
       ELSE NoFrame
  ELSE IF c.functionCode \in {FC3, FC4}
  THEN IF c.kind = "req" /\ QtyPlausible(c.quantity)
       THEN MkFrame(c.unitId, c.functionCode, c.crcOk, TRUE, FALSE, 0,
                    c.startRegister, c.quantity)
       ELSE IF c.kind = "resp" /\ c.reqShaped
       THEN \* request is tried first: 8 bytes with a plausible quantity and a
            \* CRC that does not fit are emitted as a CRC-invalid request
            MkFrame(c.unitId, c.functionCode, FALSE, TRUE, FALSE, 0,
                    c.byteCount * 256, c.quantity)
       ELSE IF c.kind = "resp" /\ ByteCountPlausible(c.byteCount)
               /\ ~ByteCountGateRejects(s, c, nowMs)
       THEN MkFrame(c.unitId, c.functionCode, c.crcOk, FALSE, FALSE,
                    c.byteCount, 0, 0)
       ELSE NoFrame
  ELSE NoFrame

\* The in-flight request as the matcher sees it.
InFlightOf(s) == IF s.waiting /\ s.has THEN s.cur ELSE NoRequest

\* Mutant: every function code matches
FcMatches_Any(frame, cur) == TRUE

\* fcMatches of processReceivedData
FcMatches(frame, cur) ==
  \/ frame.functionCode = cur.functionCode
  \/ (frame.isException /\ FcBase(frame.functionCode) = FcBase(cur.functionCode))

\* Mutant: the byte-count comparison of the matcher is left out
ByteCountMatches_Always(frame, cur) == TRUE

\* byteCountMatches of processReceivedData
ByteCountMatches(frame, cur) ==
  IF ~frame.isException /\ FcBase(cur.functionCode) \in {FC3, FC4}
  THEN frame.byteCount = cur.quantity * 2
  ELSE TRUE

\* isOurResponse
IsOurResponse(s, frame) ==
  /\ s.waiting /\ s.has /\ frame.isValid
  /\ ~frame.isRequest
  /\ frame.unitId = s.cur.unitId
  /\ FcMatches(frame, s.cur)
  /\ ByteCountMatches(frame, s.cur)

\* Mutant: no request frame is taken for an echo
IsEcho_Never(s, frame) == FALSE

\* TX echo of the in-flight request
IsEcho(s, frame) ==
  /\ s.waiting /\ s.has /\ frame.isValid
  /\ frame.unitId = s.cur.unitId
  /\ FcBase(frame.functionCode) = FcBase(s.cur.functionCode)
  /\ frame.startRegister = s.cur.startRegister
  /\ frame.quantity = s.cur.quantity

\* The completion of a request is called (callbackCopy)
InvokeCallback(compl, req) ==
  IF req.cb = "user" THEN [compl EXCEPT ![req.id] = @ + 1] ELSE compl

\* Mutant: the poll completion invalidates nothing
PollCallback_KeepsValue(vals, req, frame) ==
  IF req.cb = "poll" /\ req.unitId \in DOMAIN vals
     /\ frame.isValid /\ ~frame.isException /\ frame.byteCount >= 2
  THEN [vals EXCEPT ![req.unitId].valid = TRUE]
  ELSE vals

\* The completion the device manager passes with a poll: a good response
\* marks the covered register valid (applyReadResponseToDevice), every other
\* outcome it is called with marks it invalid.
PollCallback(vals, req, frame) ==
  IF req.cb # "poll" \/ req.unitId \notin DOMAIN vals THEN vals
  ELSE IF frame.isValid /\ ~frame.isException /\ frame.byteCount >= 2
  THEN [vals EXCEPT ![req.unitId].valid = TRUE]
  ELSE IF frame.isValid /\ ~frame.isException THEN vals
  ELSE [vals EXCEPT ![req.unitId].valid = FALSE]

\* Mutant: the back-off entry is not erased
EraseBackoff_Noop(backoff, unitId) == backoff

\* Reset of the back-off of one unit (_backoffByUnit.erase)
EraseBackoff(backoff, unitId) ==
  IF unitId \in DOMAIN backoff THEN [backoff EXCEPT ![unitId] = DefaultBackoff]
  ELSE backoff

\* The keys of ModbusRegisterMap::registers are uint16_t
RegisterKeySpace == 65536

\* ensureRegisterMap: the map of (unit, fc), created empty when missing. Of a
\* ModbusRegisterMap the model keeps the registers; its counters are
\* followed as the per-step increments in ev.
ensureRegisterMap(maps, unitId, fc) ==
  IF <<unitId, fc>> \in DOMAIN maps THEN maps
  ELSE [k \in DOMAIN maps \cup {<<unitId, fc>>} |->
          IF k \in DOMAIN maps THEN maps[k] ELSE << >>]

\* The i-th register of a read response, i from 0:
\* (regData[i * 2] << 8) | regData[i * 2 + 1], regData = &data[1]
ResponseWord(data, i) == data[2 * i + 2] * 256 + data[2 * i + 3]

\* The i-th coil of a read response: (regData[i / 8] >> (i % 8)) & 0x01
ResponseBit(data, i) == (data[(i \div 8) + 2] \div (2 ^ (i % 8))) % 2

\* regMap.registers[startReg + i] = values[i + 1] for i = 0..count-1, the key
\* being converted to uint16_t
WriteRegisters(registers, startReg, values) ==
  LET addrs == {(startReg + i) % RegisterKeySpace : i \in 0..(Len(values) - 1)}
      IndexOf(a) == (a + RegisterKeySpace - startReg) % RegisterKeySpace
  IN [a \in DOMAIN registers \cup addrs |->
        IF a \in addrs THEN values[IndexOf(a) + 1] ELSE registers[a]]

\* updateRegisterMap(request, response), startReg = request.getStartRegister()
updateRegisterMap(maps, startReg, response) ==
  IF ~response.isValid \/ response.isException THEN maps
  ELSE IF response.functionCode \notin {FC3, FC4, READ_COILS, READ_DISCRETE_INPUTS}
  THEN maps
  ELSE LET fc == response.functionCode
           key == <<response.unitId, fc>>
           ensured == ensureRegisterMap(maps, response.unitId, fc)
           byteCount == response.byteCount
           Word(i) == ResponseWord(response.data, i)
           Bit(i) == ResponseBit(response.data, i)
       IN IF Len(response.data) <= 1 \/ byteCount = 0 THEN ensured
          ELSE IF fc \in {FC3, FC4}
          THEN [ensured EXCEPT ![key] =
                   WriteRegisters(@, startReg,
                                  [i \in 1..(byteCount \div 2) |-> Word(i - 1)])]
          ELSE [ensured EXCEPT ![key] =
                   WriteRegisters(@, startReg,
                                  [i \in 1..(byteCount * 8) |-> Bit(i - 1)])]

\* A sniffed response or exception has a recent request of its unit with the
\* same base function code (the entry is CRC-valid and has a 4-byte payload)
PairsWithLastRequest(s, frame, frameMs) ==
  /\ frame.unitId \in DOMAIN s.lastReq
  /\ s.lastReq[frame.unitId].present
  /\ FcBase(s.lastReq[frame.unitId].functionCode) = FcBase(frame.functionCode)
  /\ Sub32(frameMs, s.lastReq[frame.unitId].timestamp) < PairWindowMs

\* processReceivedData, the part after a frame has been extracted; frameMs is
\* frame.timestamp
ProcessFrame(s, frame, frameMs) ==
  IF ~frame.isValid
  THEN s
  ELSE IF IsOurResponse(s, frame)
  THEN [s EXCEPT !.waiting = FALSE,
                 !.backoff = EraseBackoff(s.backoff, frame.unitId),
                 !.regs = updateRegisterMap(s.regs, s.cur.startRegister, frame),
                 !.has = FALSE,
                 !.compl = InvokeCallback(s.compl, s.cur),
                 !.vals = PollCallback(s.vals, s.cur, frame),
                 !.ev.ownRequestsSuccess = IF frame.isException THEN @ ELSE @ + 1,
                 !.ev.ownRequestsFailed = IF frame.isException THEN @ + 1 ELSE @,
                 !.ev.released = [happened |-> TRUE, frame |-> frame, req |-> s.cur,
                                  backoffBefore |-> s.backoff[s.cur.unitId],
                                  cbCalled |-> s.cur.cb # "none",
                                  cbSuccess |-> ~frame.isException]]
  ELSE IF frame.isRequest
  THEN IF IsEcho(s, frame) THEN [s EXCEPT !.ev.echoSeen = TRUE]
       ELSE IF frame.unitId \notin Units THEN s
       ELSE [s EXCEPT !.regs = IF FcBase(frame.functionCode) \in {FC3, FC4}
                                THEN ensureRegisterMap(s.regs, frame.unitId,
                                                       FcBase(frame.functionCode))
                                ELSE s.regs,
                      !.ev.mapRequestCount =
                          IF FcBase(frame.functionCode) \in {FC3, FC4}
                          THEN @ + 1 ELSE @,
                      !.lastReq[frame.unitId] =
                          [present |-> TRUE, functionCode |-> frame.functionCode,
                           startRegister |-> frame.startRegister,
                           quantity |-> frame.quantity, timestamp |-> frameMs],
                      !.ev.otherRequestsSeen = @ + 1]
  ELSE IF frame.isException
  THEN IF FcBase(frame.functionCode) \in {FC3, FC4}
       THEN [s EXCEPT !.regs = ensureRegisterMap(s.regs, frame.unitId,
                                                 FcBase(frame.functionCode))]
       ELSE s
  ELSE IF PairsWithLastRequest(s, frame, frameMs)
  THEN [s EXCEPT !.regs = updateRegisterMap(
                              s.regs, s.lastReq[frame.unitId].startRegister, frame)]
  ELSE IF FcBase(frame.functionCode) \in {FC3, FC4}
  THEN [s EXCEPT !.regs = ensureRegisterMap(s.regs, frame.unitId,
                                            FcBase(frame.functionCode))]
  ELSE s

\* processReceivedData over the candidates of one RX buffer, in buffer order
RECURSIVE ProcessReceivedData(_, _, _)
ProcessReceivedData(s, cands, nowMs) ==
  IF cands = <<>> THEN s
  ELSE LET frame == ExtractCandidate(s, Head(cands), nowMs)
           s1 == IF frame = NoFrame THEN s ELSE ProcessFrame(s, frame, nowMs)
       IN ProcessReceivedData(s1, Tail(cands), nowMs)

\* ------------------------------------------------------------------------
\* The device manager: poll plan
\* ------------------------------------------------------------------------
\* Conversion to uint16_t
U16(x) == (x + RegisterKeySpace) % RegisterKeySpace

\* A ModbusRegisterDef; conversionFactor and offset are counted in units of
\* 0.00001
MkDef(name, address, length, fc, dataType, factor, offset, pollIntervalMs) ==
  [name |-> name, address |-> address, length |-> length, functionCode |-> fc,
   dataType |-> dataType, conversionFactor |-> factor, offset |-> offset,
   pollIntervalMs |-> pollIntervalMs]

\* rebuildPollBatches: the Seg of a polled register definition
SegOf(reg) ==
  [start |-> reg.address, end |-> U16(reg.address + reg.length - 1),
   fc |-> reg.functionCode, interval |-> reg.pollIntervalMs]

\* Mutant: on-demand definitions are planned as well
SegsOf_All(registers) ==
  [i \in 1..Len(registers) |-> SegOf(registers[i])]

\* rebuildPollBatches: segs after the first loop
SegsOf(registers) ==
  LET polled == SelectSeq(registers, LAMBDA reg : reg.pollIntervalMs # 0)
  IN [i \in 1..Len(polled) |-> SegOf(polled[i])]

\* The comparator passed to std::sort: by (fc, interval, start)
SegLess(a, b) ==
  IF a.fc # b.fc THEN a.fc < b.fc
  ELSE IF a.interval # b.interval THEN a.interval < b.interval
  ELSE a.start < b.start

\* std::sort: some permutation of segs that is ordered by the comparator; the
\* order of segs the comparator does not tell apart is not specified
SortOutcomes(segs) ==
  LET n == Len(segs)
      perms == {[i \in 1..n |-> segs[p[i]]] : p \in Permutations(1..n)}
  IN {s \in perms : \A i, j \in 1..n : i < j => ~SegLess(s[j], s[i])}

\* flushWindow
FlushWindow(batches, curFc, curInterval, ws, we) ==
  LET qty == U16(we - ws + 1)
  IN IF qty = 0 THEN batches
     ELSE Append(batches, [functionCode |-> curFc, startAddress |-> ws,
                           quantity |-> qty, pollIntervalMs |-> curInterval])

\* rebuildPollBatches: the merge loop from segs[i] on, with the current
\* window (curFc, curInterval, ws, we), and the final flushWindow
RECURSIVE MergeWindows(_, _, _, _, _, _, _)
MergeWindows(segs, i, curFc, curInterval, ws, we, batches) ==
  IF i > Len(segs) THEN FlushWindow(batches, curFc, curInterval, ws, we)
  ELSE LET s == segs[i]
           mergedEnd == IF s.end > we THEN s.end ELSE we
           mergedLen == U16(mergedEnd - ws + 1)
           canMerge == /\ s.start <= U16(we + 1 + GAP_ALLOW_REGS)
                       /\ mergedLen <= MAX_REGS_PER_READ
       IN IF s.fc # curFc \/ s.interval # curInterval
          THEN MergeWindows(segs, i + 1, s.fc, s.interval, s.start, s.end,
                            FlushWindow(batches, curFc, curInterval, ws, we))
          ELSE IF canMerge
          THEN MergeWindows(segs, i + 1, curFc, curInterval, ws, mergedEnd, batches)
          ELSE MergeWindows(segs, i + 1, curFc, curInterval, s.start, s.end,
                            FlushWindow(batches, curFc, curInterval, ws, we))

\* rebuildPollBatches after the sort
PlanOfSorted(segs) ==
  IF segs = <<>> THEN <<>>
  ELSE MergeWindows(segs, 2, segs[1].fc, segs[1].interval, segs[1].start,
                    segs[1].end, <<>>)

\* rebuildPollBatches: the plans it can produce for a list of definitions
rebuildPollBatches(registers) ==
  {PlanOfSorted(sorted) : sorted \in SortOutcomes(SegsOf(registers))}

\* loadDeviceMappings for one device: every register gets a value with
\* valid = false and value = 0, and the poll plan is built
loadDeviceMappings(registers) ==
  \E plan \in rebuildPollBatches(registers) :
    dm' = [NoDevice EXCEPT
             !.mapped = TRUE,
             !.lastSeenRequests = dm.lastSeenRequests,
             !.registers = registers,
             !.plan = plan,
             !.values = [name \in {registers[i].name : i \in 1..Len(registers)}
                           |-> [valid |-> FALSE, value |-> 0]],
             !.op = [kind |-> "load"]]

\* ------------------------------------------------------------------------
\* The extractor over the bytes of the RX buffer
\* ------------------------------------------------------------------------
\* ModbusFrame::getStartRegister
getStartRegister(data) == IF Len(data) >= 2 THEN data[1] * 256 + data[2] ELSE 0

\* ModbusFrame::getQuantity
getQuantity(data) == IF Len(data) >= 4 THEN data[3] * 256 + data[4] ELSE 0

\* ModbusFrame::getByteCount
getByteCount(data) == IF Len(data) >= 1 THEN data[1] ELSE 0

\* The frame parseFrame fills in
ParsedFrame(u, fc, valid, isExc, exceptionCode, data) ==
  [unitId |-> u, functionCode |-> fc, isValid |-> valid, isRequest |-> FALSE,
   isException |-> isExc, byteCount |-> getByteCount(data),
   startRegister |-> getStartRegister(data), quantity |-> getQuantity(data),
   exceptionCode |-> exceptionCode, data |-> data]

\* ModbusRTUFeature::parseFrame over the bytes data[0..length-1]; NoFrame
\* stands for the return value false
parseFrame(bytes) ==
  LET length == Len(bytes)
      receivedCrc == bytes[length - 1] + 256 * bytes[length]
      calculatedCrc == calculateCRC(SubSeq(bytes, 1, length - 2))
      payload == SubSeq(bytes, 3, length - 2)
  IN IF length < 4 THEN NoFrame
     ELSE IF receivedCrc # calculatedCrc
     THEN ParsedFrame(bytes[1], bytes[2], FALSE, FALSE, 0, payload)
     ELSE IF bytes[2] >= 128
     THEN ParsedFrame(bytes[1], bytes[2], TRUE, TRUE, bytes[3], <<>>)
     ELSE ParsedFrame(bytes[1], bytes[2], TRUE, FALSE, 0, payload)

\* The extractor skips one byte
Noise == [frame |-> NoFrame, len |-> 0]

\* Exceptions for FC3/FC4 at index i (from 0) of the buffer: 5 bytes.
\* (Here and below a set of one element makes a value be computed once.)
TryException(buf, i) ==
  IF Len(buf) - i < 5 THEN Noise
  ELSE CHOOSE r \in
         { IF exc.isException THEN [frame |-> exc, len |-> 5] ELSE Noise
           : exc \in {parseFrame(SubSeq(buf, i + 1, i + 5))} } : TRUE

\* The request tried first: 8 bytes with a quantity in 1..125
TryRequest(buf, i) ==
  IF Len(buf) - i < 8 THEN Noise
  ELSE CHOOSE r \in
         { IF ~req.isException /\ Len(req.data) = 4 /\ QtyPlausible(req.quantity)
           THEN [frame |-> [req EXCEPT !.isRequest = TRUE], len |-> 8]
           ELSE Noise
           : req \in {parseFrame(SubSeq(buf, i + 1, i + 8))} } : TRUE

\* The response: byteCount + 5 bytes, cross-checked against the request
TryResponse(s, buf, i, nowMs) ==
  LET byteCount == buf[i + 3]
      respLen == byteCount + 5
      cand == [unitId |-> buf[i + 1], functionCode |-> buf[i + 2],
               byteCount |-> byteCount]
  IN IF Len(buf) - i < 5 \/ ~ByteCountPlausible(byteCount)
        \/ Len(buf) - i < respLen
     THEN Noise
     ELSE CHOOSE r \in
            { IF resp.isException \/ ByteCountGateRejects(s, cand, nowMs)
              THEN Noise
              ELSE [frame |-> resp, len |-> respLen]
              : resp \in {parseFrame(SubSeq(buf, i + 1, i + respLen))} } : TRUE

\* One turn of the extractor loop at index i (from 0) of the buffer: the
\* frame it accepts and the frame length, or Noise
ExtractAt(s, buf, i, nowMs) ==
  LET unitId == buf[i + 1]
      fc == buf[i + 2]
  IN IF unitId = 0 \/ unitId > MAX_RTU_UNIT_ID THEN Noise
     ELSE IF fc \in {FC3_EX, FC4_EX} THEN TryException(buf, i)
     ELSE IF fc \notin {FC3, FC4} THEN Noise
     ELSE CHOOSE r \in
            { IF asRequest # Noise THEN asRequest
              ELSE TryResponse(s, buf, i, nowMs)
              : asRequest \in {TryRequest(buf, i)} } : TRUE

\* _charTimeUs of begin()
CharTimeUs == (BitsPerChar * 1000000) \div BaudRate

\* approxStartMs of the frame found at index i
FrameTimestamp(startMs, i) == Add32(startMs, (i * CharTimeUs) \div 1000)

\* One turn of the while loop of processReceivedData at index i: the state
\* after it and the number of bytes by which the index advances. A
\* CRC-invalid frame is handed on and skipped as a whole, a CRC-valid one is
\* matched.
ExtractTurn(s, buf, i, startMs, nowMs) ==
  CHOOSE turn \in
    { IF x.len = 0
      THEN [state |-> [s EXCEPT !.rx.advances = Append(@, 1)], advance |-> 1]
      ELSE [state |-> ProcessFrame([s EXCEPT !.rx.emitted = Append(@, x.frame),
                                             !.rx.advances = Append(@, x.len)],
                                   x.frame, FrameTimestamp(startMs, i)),
            advance |-> x.len]
      : x \in {ExtractAt(s, buf, i, nowMs)} } : TRUE

\* The while loop of processReceivedData from index i on
RECURSIVE ExtractLoop(_, _, _, _, _)
ExtractLoop(s, buf, i, startMs, nowMs) ==
  IF i + 4 > Len(buf) THEN s
  ELSE CHOOSE end \in
         { ExtractLoop(turn.state, buf, i + turn.advance, startMs, nowMs)
           : turn \in {ExtractTurn(s, buf, i, startMs, nowMs)} } : TRUE

\* ModbusRTUFeature::processReceivedData over the bytes of _rxBuffer, whose
\* first byte was read at startMs (_rxBufferStartMs)
processReceivedData(s, buf, startMs, nowMs) ==
  ExtractLoop(s, buf, 0, startMs, nowMs)

\* Mutant: the doubling of backoffMs is not clamped
BackoffAfterTimeout_NoClamp(st, nowMs) ==
  LET n == st.consecutiveTimeouts + 1 IN
  IF n >= PauseThreshold
  THEN [consecutiveTimeouts |-> n,
        pausedUntilMs |-> Add32(nowMs, st.backoffMs),
        backoffMs |-> st.backoffMs * 2]
  ELSE [st EXCEPT !.consecutiveTimeouts = n]

\* The per-unit back-off update of a timeout
BackoffAfterTimeout(st, nowMs) ==
  LET n == st.consecutiveTimeouts + 1 IN
  IF n >= PauseThreshold
  THEN [consecutiveTimeouts |-> n,
        pausedUntilMs |-> Add32(nowMs, st.backoffMs),
        backoffMs |-> IF st.backoffMs < MaxBackoffMs
                      THEN MinOf(st.backoffMs * 2, MaxBackoffMs)
                      ELSE st.backoffMs]
  ELSE [st EXCEPT !.consecutiveTimeouts = n]

\* Mutant: the clean-up drops the queued requests of every unit
QueueAfterTimeout_DropsAll(q, unitId) ==
  IF Len(q) > MaxQueueSize \div 2 THEN <<>> ELSE q

\* The queue clean-up of a timeout
QueueAfterTimeout(q, unitId) ==
  IF Len(q) > MaxQueueSize \div 2
  THEN SelectSeq(q, LAMBDA r : r.unitId # unitId)
  ELSE q

\* Mutant: the timeout releases the wait flag but keeps _hasPendingRequest
TimeoutStep_KeepsPending(s, nowMs) ==
  IF s.waiting /\ Sub32(nowMs, s.sentTime) > ResponseTimeoutMs
  THEN LET unitId == s.cur.unitId
           q2 == QueueAfterTimeout(s.q, unitId)
       IN [s EXCEPT !.backoff[unitId] = BackoffAfterTimeout(s.backoff[unitId], nowMs),
                    !.waiting = FALSE,
                    !.q = q2,
                    !.ev.timeouts = @ + 1,
                    !.ev.ownRequestsFailed = @ + 1,
                    !.ev.timedOut = TRUE,
                    !.ev.toReq = s.cur,
                    !.ev.toNow = nowMs,
                    !.ev.toElapsed = Sub32(nowMs, s.sentTime),
                    !.ev.toBackoff = s.backoff,
                    !.ev.toQueueBefore = s.q,
                    !.ev.toQueueAfter = q2]
  ELSE s

\* Mutant: the timeout invokes the completion of the request
TimeoutStep_CallsBack(s, nowMs) ==
  IF s.waiting /\ Sub32(nowMs, s.sentTime) > ResponseTimeoutMs
  THEN LET unitId == s.cur.unitId
           q2 == QueueAfterTimeout(s.q, unitId)
       IN [s EXCEPT !.backoff[unitId] = BackoffAfterTimeout(s.backoff[unitId], nowMs),
                    !.waiting = FALSE,
                    !.has = FALSE,
                    !.compl = InvokeCallback(s.compl, s.cur),
                    !.q = q2,
                    !.ev.timeouts = @ + 1,
                    !.ev.ownRequestsFailed = @ + 1,
                    !.ev.timedOut = TRUE,
                    !.ev.toReq = s.cur,
                    !.ev.toNow = nowMs,
                    !.ev.toElapsed = Sub32(nowMs, s.sentTime),
                    !.ev.toBackoff = s.backoff,
                    !.ev.toQueueBefore = s.q,
                    !.ev.toQueueAfter = q2]
  ELSE s

\* Mutant: the response timeout never fires
TimeoutStep_Never(s, nowMs) == s

\* Mutant: a timeout is not counted as a failed request
TimeoutStep_NotFailed(s, nowMs) ==
  IF s.waiting /\ Sub32(nowMs, s.sentTime) > ResponseTimeoutMs
  THEN LET unitId == s.cur.unitId
           q2 == QueueAfterTimeout(s.q, unitId)
       IN [s EXCEPT !.backoff[unitId] = BackoffAfterTimeout(s.backoff[unitId], nowMs),
                    !.waiting = FALSE,
                    !.has = FALSE,
                    !.q = q2,
                    !.ev.timeouts = @ + 1,
                    !.ev.timedOut = TRUE,
                    !.ev.toReq = s.cur,
                    !.ev.toNow = nowMs,
                    !.ev.toElapsed = Sub32(nowMs, s.sentTime),
                    !.ev.toBackoff = s.backoff,
                    !.ev.toQueueBefore = s.q,
                    !.ev.toQueueAfter = q2]
  ELSE s

\* loop(): response timeout check
TimeoutStep(s, nowMs) ==
  IF s.waiting /\ Sub32(nowMs, s.sentTime) > ResponseTimeoutMs
  THEN LET unitId == s.cur.unitId
           q2 == QueueAfterTimeout(s.q, unitId)
       IN [s EXCEPT !.backoff[unitId] = BackoffAfterTimeout(s.backoff[unitId], nowMs),
                    !.waiting = FALSE,
                    !.has = FALSE,
                    !.q = q2,
                    !.ev.timeouts = @ + 1,
                    !.ev.ownRequestsFailed = @ + 1,
                    !.ev.timedOut = TRUE,
                    !.ev.toReq = s.cur,
                    !.ev.toNow = nowMs,
                    !.ev.toElapsed = Sub32(nowMs, s.sentTime),
                    !.ev.toBackoff = s.backoff,
                    !.ev.toQueueBefore = s.q,
                    !.ev.toQueueAfter = q2]
  ELSE s

\* sendRequest: TRUE when the request can be encoded (and is then sent)
sendRequest(req) ==
  req.functionCode \in {READ_COILS, READ_DISCRETE_INPUTS, FC3, FC4,
                        WRITE_SINGLE_REGISTER, WRITE_MULTIPLE_REGISTERS}

RemoveAt(q, i) == SubSeq(q, 1, i - 1) \o SubSeq(q, i + 1, Len(q))

\* Mutant: the last queued request whose unit is not paused is taken
SendIndex_Last(q, backoff, nowMs) ==
  LET idx == {i \in 1..Len(q) : ~isUnitQueueingPaused(backoff, q[i].unitId, nowMs)}
  IN IF idx = {} THEN 0 ELSE CHOOSE i \in idx : \A j \in idx : j <= i

\* Index of the first queued request whose unit is not paused, 0 if none
SendIndex(q, backoff, nowMs) ==
  LET idx == {i \in 1..Len(q) : ~isUnitQueueingPaused(backoff, q[i].unitId, nowMs)}
  IN IF idx = {} THEN 0 ELSE Min(idx)

\* processQueue
processQueue(s, nowMs) ==
  LET s0 == [s EXCEPT !.ev.pqCalled = TRUE, !.ev.pqQueue = s.q,
                      !.ev.pqInFlight = (s.waiting \/ s.has),
                      !.ev.pqPaused = {u \in Units : isUnitQueueingPaused(s.backoff, u, nowMs)}]
      sendIndex == SendIndex(s.q, s.backoff, nowMs)
  IN IF s.q = <<>> \/ sendIndex = 0 THEN s0
     ELSE LET req == s.q[sendIndex] IN
          IF sendRequest(req)
          THEN [s0 EXCEPT !.regs =
                              IF FcBase(req.functionCode) \in {FC3, FC4}
                              THEN ensureRegisterMap(s.regs, req.unitId,
                                                     FcBase(req.functionCode))
                              ELSE s.regs,
                          !.ev.mapRequestCount =
                              IF FcBase(req.functionCode) \in {FC3, FC4}
                              THEN @ + 1 ELSE @,
                          !.cur = req,
                          !.has = TRUE,
                          !.waiting = TRUE,
                          !.sentTime = nowMs,
                          !.lastReq[req.unitId] =
                              [present |-> TRUE, functionCode |-> req.functionCode,
                               startRegister |-> req.startRegister,
                               quantity |-> req.quantity, timestamp |-> nowMs],
                          !.q = RemoveAt(s.q, sendIndex),
                          !.ev.sent = req,
                          !.ev.ownRequestsSent = @ + 1]
          ELSE s0

\* loop(): the transmit decision. gap is what the bus offers in this tick:
\* "fast" (RX buffer observed empty for the required silence), "arb" (the
\* bounded arbitration loop finds the silence) or "none".
TransmitStep(s, gap, rxArb, nowMs) ==
  IF s.waiting THEN s
  ELSE IF gap = "fast" THEN processQueue(s, nowMs)
  ELSE IF s.q # <<>>
  THEN LET s1 == ProcessReceivedData(s, rxArb, nowMs)
       IN IF gap = "arb" THEN processQueue(s1, nowMs) ELSE s1
  ELSE s

\* loop() as a function of the state and of what the bus delivers
LoopResult(s, rx, gap, rxArb, nowMs) ==
  TransmitStep(TimeoutStep(ProcessReceivedData(s, rx, nowMs), nowMs),
               gap, rxArb, nowMs)

\* What the bus offers is consistent with the path loop() takes from s2, the
\* state after the read loop and the timeout check
BusOfferOk(s2, gap, rxArb) ==
  /\ (s2.waiting => gap = "none" /\ rxArb = <<>>)
  /\ (gap = "fast" => rxArb = <<>>)
  /\ (s2.q = <<>> => gap # "arb" /\ rxArb = <<>>)

\* The inputs of one tick are consistent with the path loop() takes
TickInputsOk(s, rx, gap, rxArb, nowMs) ==
  BusOfferOk(TimeoutStep(ProcessReceivedData(s, rx, nowMs), nowMs), gap, rxArb)

Install(s) ==
  /\ requestQueue' = s.q
  /\ currentRequest' = s.cur
  /\ hasPendingRequest' = s.has
  /\ waitingForResponse' = s.waiting
  /\ requestSentTime' = s.sentTime
  /\ backoffByUnit' = s.backoff
  /\ lastRequestPerUnit' = s.lastReq
  /\ completions' = s.compl
  /\ currentValues' = s.vals
  /\ registerMaps' = s.regs
  /\ stats' = s.stats
  /\ ev' = s.ev

\* ModbusRTUFeature::loop without its call counter, for the RX buffer rx and
\* every bus offer of gaps x rxArbs that fits it
LoopAmong(rx, gaps, rxArbs) ==
  /\ \E s2 \in {TimeoutStep(ProcessReceivedData(EngineState, rx, now), now)} :
       \E gap \in gaps, rxArb \in rxArbs :
         /\ BusOfferOk(s2, gap, rxArb)
         /\ \E after \in {TransmitStep(s2, gap, rxArb, now)} : Install(after)
  /\ UNCHANGED <<now, nextId, pollBatches, tx, suspended, dm, frameHistory>>

\* ModbusRTUFeature::loop without its call counter
LoopBody(rx, gap, rxArb) == LoopAmong(rx, {gap}, {rxArb})

\* ModbusRTUFeature::loop
Tick(rx, gap, rxArb) ==
  /\ LoopBody(rx, gap, rxArb)
  /\ UNCHANGED <<loopCounter, web>>

\* ModbusRTUFeature::loop when the silence after the bytes buf, the first of
\* them read at startMs, is seen in this call, and the bus then offers one of
\* gaps: s1 is the state after processReceivedData, s2 the state after the
\* timeout check
ByteTick(buf, startMs, gaps) ==
  \E s1 \in {processReceivedData(EngineState, buf, startMs, now)} :
    \E s2 \in {TimeoutStep(s1, now)}, gap \in gaps :
      /\ s2.waiting => gap = "none"
      /\ Install(TransmitStep(s2, gap, <<>>, now))
      /\ UNCHANGED <<now, nextId, pollBatches, tx, suspended, dm, frameHistory, loopCounter, web>>

\* ModbusRTUFeature::loop with _loopCounter++ (modulo 2), which tells a call
\* that changes nothing else from no call at all
CountedTick(rx, gap, rxArb) ==
  /\ LoopBody(rx, gap, rxArb)
  /\ loopCounter' = (loopCounter + 1) % 2
  /\ UNCHANGED web

\* Mutant: the queue accepts one request more than _maxQueueSize
EnqueueAccepts_OneMore(q, heapLow) == ~(Len(q) > MaxQueueSize \/ heapLow)

\* The admission check of the enqueue functions; heapLow: free heap < 25000.
\* The value is what the function returns.
EnqueueAccepts(q, heapLow) == ~(Len(q) >= MaxQueueSize \/ heapLow)

\* Mutant: a rejected enqueue drops the request at the head of the queue
QueueAfterEnqueue_RejectDropsHead(q, req, accept) ==
  IF accept THEN Append(q, req) ELSE IF q = <<>> THEN q ELSE Tail(q)

\* _requestQueue after an enqueue function returns
QueueAfterEnqueue(q, req, accept) == IF accept THEN Append(q, req) ELSE q

\* _stats after an enqueue function returns
StatsAfterEnqueue(st, accept) ==
  IF accept THEN st
  ELSE [st EXCEPT !.queueOverflows = @ + 1, !.ownRequestsDiscarded = @ + 1]

\* queueReadRegisters / queueWriteSingleRegister / queueWriteMultipleRegisters:
\* the shared admission check and push_back.
\* A request that carries a caller's completion gets the next ghost id (at
\* most maxId such calls are made); every other request has id 0.
Enqueue(req, heapLow, maxId) ==
  LET tracked == req.cb = "user"
      accept == EnqueueAccepts(requestQueue, heapLow)
      id == IF tracked THEN nextId ELSE 0
  IN /\ tracked => nextId <= maxId
     /\ nextId' = IF tracked THEN nextId + 1 ELSE nextId
     /\ completions' = IF tracked THEN completions @@ (nextId :> 0) ELSE completions
     /\ requestQueue' = QueueAfterEnqueue(requestQueue, [req EXCEPT !.id = id], accept)
     /\ stats' = StatsAfterEnqueue(stats, accept)
     /\ UNCHANGED <<now, currentRequest, hasPendingRequest, waitingForResponse,
                    requestSentTime, backoffByUnit, lastRequestPerUnit,
                    currentValues, registerMaps, suspended, dm, frameHistory>>

\* queueReadRegisters
queueReadRegisters(unitId, fc, start, qty, cb, heapLow, maxId) ==
  Enqueue(MkRequest(0, unitId, fc, start, qty, <<>>, cb), heapLow, maxId)

\* queueWriteSingleRegister
queueWriteSingleRegister(unitId, address, value, cb, heapLow, maxId) ==
  Enqueue(MkRequest(0, unitId, WRITE_SINGLE_REGISTER, address, 1, <<value>>, cb),
          heapLow, maxId)

\* queueWriteMultipleRegisters
queueWriteMultipleRegisters(unitId, startAddress, values, cb, heapLow, maxId) ==
  Enqueue(MkRequest(0, unitId, WRITE_MULTIPLE_REGISTERS, startAddress,
                    Len(values), values, cb),
          heapLow, maxId)

\* suspend(): declared for OTA ("Clears queue, stops polling, ignores
\* incoming data"); sets _suspended and clears the queue
suspend ==
  /\ ~suspended
  /\ suspended' = TRUE
  /\ requestQueue' = <<>>
  /\ ev' = EmptyEv
  /\ UNCHANGED <<now, currentRequest, hasPendingRequest, waitingForResponse,
                 requestSentTime, backoffByUnit, lastRequestPerUnit,
                 pollBatches, tx, loopCounter, nextId, completions,
                 currentValues, registerMaps, stats, web, dm, frameHistory>>

\* resume(): clears _suspended
resume ==
  /\ suspended
  /\ suspended' = FALSE
  /\ ev' = EmptyEv
  /\ UNCHANGED <<now, requestQueue, currentRequest, hasPendingRequest,
                 waitingForResponse, requestSentTime, backoffByUnit,
                 lastRequestPerUnit, pollBatches, tx, loopCounter, nextId,
                 completions, currentValues, registerMaps, stats, web, dm, frameHistory>>

\* millis() advances
AdvanceTime(d, maxTime) ==
  /\ now + d <= maxTime
  /\ now' = Add32(now, d)
  /\ ev' = EmptyEv
  /\ UNCHANGED <<requestQueue, currentRequest, hasPendingRequest,
                 waitingForResponse, requestSentTime, backoffByUnit,
                 lastRequestPerUnit, pollBatches, tx, loopCounter, nextId, completions, currentValues, registerMaps, stats, web, suspended, dm, frameHistory>>

\* getPendingRequestCount: queued + in-flight
getPendingRequestCount ==
  Len(requestQueue) + (IF waitingForResponse /\ hasPendingRequest THEN 1 ELSE 0)

\* nextDue of a batch in ModbusDeviceManager::loop
NextDue(batch) ==
  IF batch.lastPollMs = 0 THEN 0 ELSE Add32(batch.lastPollMs, PollIntervalMs)

\* The batches the scheduler considers: not attempted within the cool-down
SchedCandidates ==
  {u \in Units :
     ~(pollBatches[u].lastAttemptMs # 0
       /\ Sub32(now, pollBatches[u].lastAttemptMs) < QUEUE_RETRY_COOLDOWN_MS)}

\* Mutant: the batch with the latest nextDue
BestUnit_Latest ==
  CHOOSE u \in SchedCandidates :
    \A v \in SchedCandidates :
      \/ Less32(NextDue(pollBatches[v]), NextDue(pollBatches[u]))
      \/ (NextDue(pollBatches[u]) = NextDue(pollBatches[v]) /\ u <= v)

\* The batch with the earliest nextDue; the device map is iterated in unit
\* order and a later batch wins only with a strictly smaller nextDue.
BestUnit ==
  CHOOSE u \in SchedCandidates :
    \A v \in SchedCandidates :
      \/ Less32(NextDue(pollBatches[u]), NextDue(pollBatches[v]))
      \/ (NextDue(pollBatches[u]) = NextDue(pollBatches[v]) /\ u <= v)

\* Mutant: the scheduler does not look at the engine's pending requests
SchedReturnsEarly_IgnoresPending ==
  \/ SchedCandidates = {}
  \/ (Less32(now, NextDue(pollBatches[BestUnit]))
      /\ pollBatches[BestUnit].lastPollMs # 0)

\* ModbusDeviceManager::loop returns without queueing a poll
SchedReturnsEarly ==
  \/ getPendingRequestCount > 0
  \/ SchedCandidates = {}
  \/ (Less32(now, NextDue(pollBatches[BestUnit]))
      /\ pollBatches[BestUnit].lastPollMs # 0)

\* ModbusDeviceManager::loop: one device per unit, each with one FC3 batch of
\* one register and poll interval PollIntervalMs.
DeviceManagerLoop(heapLow) ==
  IF SchedReturnsEarly
  THEN /\ ev' = [EmptyEv EXCEPT !.schedRan = TRUE]
       /\ UNCHANGED <<now, requestQueue, currentRequest, hasPendingRequest,
                      waitingForResponse, requestSentTime, backoffByUnit,
                      lastRequestPerUnit, pollBatches, tx, loopCounter, nextId, completions, currentValues, registerMaps, stats, web, suspended, dm, frameHistory>>
  ELSE LET u == BestUnit
           queued == EnqueueAccepts(requestQueue, heapLow)
       IN /\ queueReadRegisters(u, FC3, 0, 1, "poll", heapLow, 0)
          /\ pollBatches' =
               [pollBatches EXCEPT ![u] =
                  [lastAttemptMs |-> now,
                   lastPollMs |-> IF queued THEN now ELSE @.lastPollMs]]
          /\ ev' = [EmptyEv EXCEPT !.schedRan = TRUE,
                                   !.schedQueued = IF queued THEN u ELSE 0]
          /\ UNCHANGED <<tx, loopCounter, web>>

\* ------------------------------------------------------------------------
\* loop() at micro-second resolution: silence tracking and transmit
\* arbitration. Bytes on the bus are noise to the extractor here, so only
\* their arrival times matter.
\* ------------------------------------------------------------------------
\* _silenceTimeUs of begin()
SilenceTimeUs ==
  IF BaudRate > 19200 THEN 1750 ELSE (CharTimeUs * 35) \div 10

\* sendFrame: two transceiver delays around the flushed frame
TxDurationUs == RequestFrameBytes * CharTimeUs + 2 * TransceiverDelayUs

\* The empty-buffer tracking of loop() after the read loop
SerialWasEmptyAfterCheck(t) == t.available = 0

SerialEmptySinceAfterCheck(t) ==
  IF t.available = 0 /\ ~t.serialWasEmpty THEN t.micros ELSE t.serialEmptySinceUs

\* gapEnoughForTx
GapEnoughForTx(wasEmpty, nowUs, sinceUs) ==
  LET idleUs == IF wasEmpty THEN nowUs - sinceUs ELSE 0
  IN wasEmpty /\ idleUs > SilenceTimeUs

\* Mutant: a byte read during arbitration does not move lastRxUs
ArbLastRxAfterByte_Keeps(byteTimeUs, lastRxUs) == lastRxUs

\* lastRxUs after a byte was read in the arbitration loop
ArbLastRxAfterByte(byteTimeUs, lastRxUs) == byteTimeUs

\* sendFrame: the micro-second state after the frame has left
AfterSendFrame(t) ==
  LET endUs == t.micros + TxDurationUs IN
  [t EXCEPT !.micros = endUs,
            !.lastByteTime = endUs,
            !.serialWasEmpty = (t.available = 0),
            !.serialEmptySinceUs = IF t.available = 0 THEN endUs ELSE @,
            !.seenActivityUs = endUs]

\* processQueue() called from loop() on the given path, with the engine
\* state s and the micro-second state t of the moment of the decision.
CallProcessQueue(s, t, path) ==
  LET s3 == processQueue(s, now)
      sent == s3.ev.sent # NoRequest
      t1 == IF sent THEN AfterSendFrame(t) ELSE t
      nowAfter == t1.micros \div 1000
      s4 == [s3 EXCEPT !.sentTime = IF sent THEN nowAfter ELSE @,
                       !.ev.txPath = path,
                       !.ev.txObservedEmpty = (t.available = 0),
                       !.ev.txQuietUs = t.micros - t.seenActivityUs]
  IN /\ Install(s4)
     /\ tx' = [t1 EXCEPT !.pc = "idle"]
     /\ now' = nowAfter

\* loop() is entered: nowUs = micros()
LoopBegin ==
  /\ tx.pc = "idle"
  /\ tx' = [tx EXCEPT !.pc = "drain", !.nowUs = tx.micros]
  /\ ev' = EmptyEv
  /\ UNCHANGED <<now, requestQueue, currentRequest, hasPendingRequest,
                 waitingForResponse, requestSentTime, backoffByUnit,
                 lastRequestPerUnit, pollBatches, loopCounter, nextId, completions, currentValues, registerMaps, stats, web, suspended, dm, frameHistory>>

\* The read loop: one byte is read, or the UART is found empty
DrainStep ==
  /\ tx.pc = "drain"
  /\ tx' = IF tx.available > 0
           THEN [tx EXCEPT !.available = @ - 1,
                           !.lastByteTime = tx.micros,
                           !.serialWasEmpty = FALSE,
                           !.seenActivityUs = tx.micros]
           ELSE [tx EXCEPT !.pc = "check"]
  /\ ev' = EmptyEv
  /\ UNCHANGED <<now, requestQueue, currentRequest, hasPendingRequest,
                 waitingForResponse, requestSentTime, backoffByUnit,
                 lastRequestPerUnit, pollBatches, loopCounter, nextId, completions, currentValues, registerMaps, stats, web, suspended, dm, frameHistory>>

\* loop() after the read loop: empty-buffer tracking, response timeout and
\* the transmit decision (fast path, or entry into the arbitration loop)
LoopDecide ==
  /\ tx.pc = "check"
  /\ LET wasEmpty == SerialWasEmptyAfterCheck(tx)
         sinceUs == SerialEmptySinceAfterCheck(tx)
         t == [tx EXCEPT !.nowUs = tx.micros, !.serialWasEmpty = wasEmpty,
                         !.serialEmptySinceUs = sinceUs]
         s2 == TimeoutStep(EngineState, now)
     IN IF s2.waiting
        THEN Install(s2) /\ tx' = [t EXCEPT !.pc = "idle"] /\ UNCHANGED now
        ELSE IF GapEnoughForTx(wasEmpty, t.nowUs, sinceUs)
        THEN CallProcessQueue(s2, t, "fast")
        ELSE IF s2.q # <<>>
        THEN /\ Install(s2)
             /\ tx' = [t EXCEPT !.pc = "arb", !.startUs = t.micros,
                                !.lastRxUs = IF wasEmpty THEN t.micros
                                             ELSE t.lastByteTime]
             /\ UNCHANGED now
        ELSE Install(s2) /\ tx' = [t EXCEPT !.pc = "idle"] /\ UNCHANGED now
  /\ UNCHANGED <<pollBatches, loopCounter, nextId, web, suspended, dm, frameHistory>>

\* One iteration of the bounded arbitration loop
ArbStep ==
  /\ tx.pc = "arb"
  /\ IF tx.micros - tx.startUs >= TX_ARBITRATION_WINDOW_US
     THEN /\ tx' = [tx EXCEPT !.pc = "idle"]
          /\ Install(EngineState) /\ UNCHANGED now
     ELSE IF tx.available > 0
     THEN /\ tx' = [tx EXCEPT !.available = @ - 1,
                              !.lastRxUs = ArbLastRxAfterByte(tx.micros, @),
                              !.serialWasEmpty = FALSE,
                              !.lastByteTime = tx.micros,
                              !.seenActivityUs = tx.micros]
          /\ Install(EngineState) /\ UNCHANGED now
     ELSE IF tx.micros - tx.lastRxUs >= SilenceTimeUs
     THEN CallProcessQueue(EngineState,
                           [tx EXCEPT !.serialWasEmpty = TRUE,
                                      !.serialEmptySinceUs = tx.micros],
                           "arb")
     ELSE /\ tx.micros + ArbDelayUs <= TxMaxMicros
          /\ tx' = [tx EXCEPT !.micros = @ + ArbDelayUs]
          /\ Install(EngineState) /\ UNCHANGED now
  /\ UNCHANGED <<pollBatches, loopCounter, nextId, web, suspended, dm, frameHistory>>

\* A byte arrives in the UART (at most TxMaxBytes over a run, at instants
\* on a grid of TxByteGridUs)
ByteArrives ==
  /\ tx.arrived < TxMaxBytes
  /\ tx.micros % TxByteGridUs = 0
  /\ tx' = [tx EXCEPT !.available = @ + 1, !.arrived = @ + 1]
  /\ UNCHANGED <<now, requestQueue, currentRequest, hasPendingRequest,
                 waitingForResponse, requestSentTime, backoffByUnit,
                 lastRequestPerUnit, pollBatches, loopCounter, nextId, completions, currentValues, registerMaps, stats, web, suspended, dm, frameHistory, ev>>

\* Time passes between two calls of loop(): the rest of the main loop, or,
\* with a request in flight, the response timeout
Elapse(d) ==
  /\ tx.pc = "idle"
  /\ tx.micros + d <= TxMaxMicros
  /\ tx' = [tx EXCEPT !.micros = @ + d]
  /\ now' = (tx.micros + d) \div 1000
  /\ ev' = EmptyEv
  /\ UNCHANGED <<requestQueue, currentRequest, hasPendingRequest,
                 waitingForResponse, requestSentTime, backoffByUnit,
                 lastRequestPerUnit, pollBatches, loopCounter, nextId, completions, currentValues, registerMaps, stats, web, suspended, dm, frameHistory>>

\* ------------------------------------------------------------------------
\* The environment of specification Spec
\* ------------------------------------------------------------------------
TimeStep == 500
QueueTimeStep == 1001

\* What callers enqueue: (unit, function code, quantity, completion)
EnqueueInputs ==
  { <<UnitA, FC3, 1, "none">>, <<UnitB, FC3, 1, "none">>,
    <<UnitA, FC3, 126, "none">> }

\* What the bus delivers
RxCandidates ==
  { MkCand("resp", UnitA, FC3, TRUE, 2, 0, 0, FALSE),
    MkCand("resp", UnitA, FC3, TRUE, 4, 0, 0, FALSE),
    MkCand("resp", UnitA, FC3, FALSE, 2, 0, 0, FALSE),
    MkCand("resp", UnitA, FC4, TRUE, 2, 0, 0, FALSE),
    MkCand("resp", UnitB, FC3, TRUE, 2, 0, 0, FALSE),
    MkCand("exc", UnitA, FC3_EX, TRUE, 0, 0, 0, FALSE),
    MkCand("exc", UnitA, FC4_EX, TRUE, 0, 0, 0, FALSE),
    MkCand("req", UnitA, FC3, TRUE, 0, 0, 1, FALSE),
    MkCand("req", UnitA, FC3, TRUE, 0, 0, 2, FALSE) }

\* The buffers a tick of Spec finds: empty, or one of the candidates that can
\* change the engine state, or a response with a bad CRC.
RxBuffers ==
  { <<>>,
    <<MkCand("resp", UnitA, FC3, TRUE, 2, 0, 0, FALSE)>>,
    <<MkCand("resp", UnitA, FC3, FALSE, 2, 0, 0, FALSE)>>,
    <<MkCand("resp", UnitB, FC3, TRUE, 2, 0, 0, FALSE)>>,
    <<MkCand("exc", UnitA, FC3_EX, TRUE, 0, 0, 0, FALSE)>>,
    <<MkCand("req", UnitA, FC3, TRUE, 0, 0, 2, FALSE)>> }

RxArbBuffers == {<<>>, <<MkCand("req", UnitA, FC3, TRUE, 0, 0, 2, FALSE)>>}

\* Environment of SpecQueue: slaves that answer correctly or stay mute.
QueueEnqueueInputs ==
  { <<UnitA, FC3, 1, "user">>, <<UnitB, FC3, 1, "user">> }

QueueRxBuffers ==
  { <<>>, <<MkCand("resp", UnitA, FC3, TRUE, 2, 0, 0, FALSE)>>,
    <<MkCand("resp", UnitB, FC3, TRUE, 2, 0, 0, FALSE)>> }

\* Environment of SpecPause: unit A is mute, unit B answers, and callers also
\* enqueue a function code that sendRequest cannot encode.
PauseEnqueueInputs ==
  { <<UnitA, FC3, 1, "none">>, <<UnitB, FC3, 1, "none">>,
    <<UnitB, WRITE_SINGLE_COIL, 1, "none">> }

PauseRxBuffers ==
  { <<>>, <<MkCand("resp", UnitB, FC3, TRUE, 2, 0, 0, FALSE)>> }

Gaps == {"fast", "arb", "none"}

\* ------------------------------------------------------------------------
\* The frame history of the engine
\* ------------------------------------------------------------------------
FRAME_HISTORY_SIZE == 20

\* A slot of _frameHistory as the constructor leaves it
EmptySlot ==
  [timestamp |-> 0, frame |-> MkFrame(0, 0, FALSE, FALSE, FALSE, 0, 0, 0)]

\* _frameHistory (slots 0..19) and _frameHistoryIndex after the
\* constructor; recorded (ghost) is the sequence of all frames recorded
NoHistory ==
  [slots |-> [i \in 0..(FRAME_HISTORY_SIZE - 1) |-> EmptySlot], index |-> 0,
   recorded |-> <<>>]

\* Mutant: the index is not advanced
recordFrameToHistory_SameSlot(h, entry) ==
  [h EXCEPT !.slots[h.index] = entry, !.recorded = Append(@, entry)]

\* ModbusRTUFeature::recordFrameToHistory (the frame with its timestamp)
recordFrameToHistory(h, entry) ==
  [h EXCEPT !.slots[h.index] = entry,
            !.index = (h.index + 1) % FRAME_HISTORY_SIZE,
            !.recorded = Append(@, entry)]

\* The loop of getRecentFrames from i on
RECURSIVE RecentFrom(_, _)
RecentFrom(h, i) ==
  IF i >= FRAME_HISTORY_SIZE THEN <<>>
  ELSE LET f == h.slots[(h.index + i) % FRAME_HISTORY_SIZE]
       IN IF f.timestamp = 0 THEN RecentFrom(h, i + 1)
          ELSE <<f>> \o RecentFrom(h, i + 1)

\* ModbusRTUFeature::getRecentFrames
getRecentFrames(h) == RecentFrom(h, 0)

\* Outside SpecAdmit callers enqueue only while the queue has room and the
\* heap is not low, so that the counters of rejected enqueues stay at 0.
QueueHasRoom == Len(requestQueue) < MaxQueueSize

Init ==
  /\ now = 0
  /\ requestQueue = <<>>
  /\ currentRequest \in {NoRequest, MkRequest(0, UnitA, FC3, 0, 1, <<>>, "none")}
  /\ hasPendingRequest = FALSE
  /\ waitingForResponse = FALSE
  /\ requestSentTime = 0
  /\ backoffByUnit = [u \in Units |-> DefaultBackoff]
  /\ lastRequestPerUnit = [u \in Units |-> NoSeenRequest]
  /\ pollBatches = [u \in Units |-> NewBatch]
  /\ tx = TxBegin
  /\ loopCounter = 0
  /\ nextId = 1
  /\ completions = << >>
  /\ currentValues = [u \in Units |-> NewValue]
  /\ registerMaps = << >>
  /\ stats = NoStats
  /\ web = WebIdle
  /\ suspended = FALSE
  /\ dm = NoDevice
  /\ frameHistory = NoHistory
  /\ ev = EmptyEv

DoEnqueueRead ==
  \E i \in EnqueueInputs, heapLow \in {FALSE} :
    /\ QueueHasRoom
    /\ queueReadRegisters(i[1], i[2], 0, i[3], i[4], heapLow, 0)
    /\ ev' = EmptyEv
    /\ UNCHANGED <<pollBatches, tx, loopCounter, web>>

DoTick ==
  \E rx \in RxBuffers :
    LoopAmong(rx, Gaps, RxArbBuffers) /\ UNCHANGED <<loopCounter, web>>

DoAdvanceTime == AdvanceTime(TimeStep, MaxTime)

Next == DoEnqueueRead \/ DoTick \/ DoAdvanceTime

Spec == Init /\ [][Next]_vars

\* SpecQueue: completions and the timeout clean-up of the queue
QueueEnqueue ==
  \E i \in QueueEnqueueInputs :
    /\ QueueHasRoom
    /\ queueReadRegisters(i[1], i[2], 0, i[3], i[4], FALSE, QueueRequests)
    /\ ev' = EmptyEv
    /\ UNCHANGED <<pollBatches, tx, loopCounter, web>>

QueueTick ==
  \E rx \in QueueRxBuffers, gap \in {"fast", "none"} : Tick(rx, gap, <<>>)

QueueAdvanceTime == AdvanceTime(QueueTimeStep, QueueMaxTime)

NextQueue == QueueEnqueue \/ QueueTick \/ QueueAdvanceTime

SpecQueue == Init /\ [][NextQueue]_vars

\* SpecPause: the per-unit pause gate of processQueue
PauseEnqueue ==
  \E i \in PauseEnqueueInputs :
    /\ QueueHasRoom
    /\ queueReadRegisters(i[1], i[2], 0, i[3], i[4], FALSE, 0)
    /\ ev' = EmptyEv
    /\ UNCHANGED <<pollBatches, tx, loopCounter, web>>

PauseTick ==
  \E rx \in PauseRxBuffers, gap \in {"fast", "none"} : Tick(rx, gap, <<>>)

PauseAdvanceTime == AdvanceTime(QueueTimeStep, PauseMaxTime)

NextPause == PauseEnqueue \/ PauseTick \/ PauseAdvanceTime

SpecPause == Init /\ [][NextPause]_vars

\* SpecBackoff: both units stay mute. Unit A is polled without end, unit B
\* by a bounded number of caller requests. The clock is observed at the
\* instants that matter to the back-off: one timeout period after a request
\* was sent, and the end of a unit's pause while nothing is in flight.
BackoffDelays ==
  IF waitingForResponse
  THEN IF Sub32(now, requestSentTime) > ResponseTimeoutMs THEN {}
       ELSE {QueueTimeStep}
  ELSE {backoffByUnit[u].pausedUntilMs - now :
          u \in {v \in Units : backoffByUnit[v].pausedUntilMs > now}}

BackoffEnqueue ==
  /\ QueueHasRoom
  /\ \/ queueReadRegisters(UnitA, FC3, 0, 1, "none", FALSE, 0)
     \/ queueReadRegisters(UnitB, FC3, 0, 1, "user", FALSE, BackoffRequests)
  /\ ev' = EmptyEv
  /\ UNCHANGED <<pollBatches, tx, loopCounter, web>>

BackoffTick == Tick(<<>>, "fast", <<>>)

BackoffAdvanceTime == \E d \in BackoffDelays : AdvanceTime(d, BackoffMaxTime)

NextBackoff == BackoffEnqueue \/ BackoffTick \/ BackoffAdvanceTime

SpecBackoff == Init /\ [][NextBackoff]_vars

\* SpecSched: the device manager polls unit A, which is mute, and unit B,
\* which answers. The scheduler first runs after setup (millis() > 0) and
\* the heap is never low.
SchedRxBuffers ==
  { <<>>, <<MkCand("resp", UnitB, FC3, TRUE, 2, 0, 0, FALSE)>> }

SchedLoop == now > 0 /\ DeviceManagerLoop(FALSE)

SchedTick == \E rx \in SchedRxBuffers : Tick(rx, "fast", <<>>)

SchedAdvanceTime == AdvanceTime(QueueTimeStep, SchedMaxTime)

NextSched == SchedLoop \/ SchedTick \/ SchedAdvanceTime

SpecSched == Init /\ [][NextSched]_vars

\* SpecPoll: the device manager polls units A and B, which both answer,
\* while web handlers enqueue reads of their own and the heap is low at
\* times. Up to PollFastUntil loop() runs every PollTimeStep ms or more
\* often, so that the retry cool-down of a rejected poll spans more than one
\* call of the scheduler; one longer delay then makes the polled batches due
\* again.
PollTimeStep == 200

PollFastUntil == 600

PollMaxTime == 1601

PollRequests == 1

PollRxBuffers ==
  { <<>>, <<MkCand("resp", UnitA, FC3, TRUE, 2, 0, 0, FALSE)>>,
    <<MkCand("resp", UnitB, FC3, TRUE, 2, 0, 0, FALSE)>> }

PollLoop == now > 0 /\ \E heapLow \in BOOLEAN : DeviceManagerLoop(heapLow)

PollEnqueue ==
  /\ QueueHasRoom
  /\ queueReadRegisters(UnitB, FC3, 0, 1, "user", FALSE, PollRequests)
  /\ ev' = EmptyEv
  /\ UNCHANGED <<pollBatches, tx, loopCounter, web>>

PollTick == \E rx \in PollRxBuffers : Tick(rx, "fast", <<>>)

PollAdvanceTime ==
  \/ AdvanceTime(PollTimeStep, PollFastUntil)
  \/ AdvanceTime(QueueTimeStep, PollMaxTime)

NextPoll == PollLoop \/ PollEnqueue \/ PollTick \/ PollAdvanceTime

SpecPoll == Init /\ [][NextPoll]_vars

\* SpecTx: transmit arbitration. Unit A is mute; callers enqueue reads of
\* unit A between two calls of loop(). With a request in flight the next
\* call of loop() that matters is the one after the response timeout;
\* otherwise loop() is called every TxLoopGapUs, and a bus that has been
\* quiet for TxMaxQuietUs is not followed any longer.
TxElapse ==
  IF waitingForResponse
  THEN Elapse((ResponseTimeoutMs + 1) * 1000)
  ELSE /\ tx.micros + TxLoopGapUs - tx.seenActivityUs <= TxMaxQuietUs
       /\ Elapse(TxLoopGapUs)

TxEnqueue ==
  /\ tx.pc = "idle"
  /\ QueueHasRoom
  /\ queueReadRegisters(UnitA, FC3, 0, 1, "none", FALSE, 0)
  /\ ev' = EmptyEv
  /\ UNCHANGED <<pollBatches, tx, loopCounter, web>>

NextTx ==
  LoopBegin \/ DrainStep \/ LoopDecide \/ ArbStep \/ ByteArrives \/ TxElapse
  \/ TxEnqueue

SpecTx == Init /\ [][NextTx]_vars

\* SpecLive: loop() is called for ever and millis() advances (Arduino main
\* loop), which the two fairness conditions express. Callers stop
\* enqueueing at LiveMaxTime; the clock goes on past it only while the
\* request in flight has not yet reached its timeout.
LiveRxBuffers ==
  { <<>>, <<MkCand("resp", UnitA, FC3, TRUE, 2, 0, 0, FALSE)>>,
    <<MkCand("resp", UnitB, FC3, TRUE, 2, 0, 0, FALSE)>> }

LiveEnqueue ==
  /\ now <= LiveMaxTime
  /\ QueueHasRoom
  /\ \E u \in Units : queueReadRegisters(u, FC3, 0, 1, "none", FALSE, 0)
  /\ ev' = EmptyEv
  /\ UNCHANGED <<pollBatches, tx, loopCounter, web>>

LiveTick ==
  \E rx \in LiveRxBuffers, gap \in {"fast", "none"} : CountedTick(rx, gap, <<>>)

LiveAdvanceTime ==
  IF waitingForResponse /\ Sub32(now, requestSentTime) <= ResponseTimeoutMs
  THEN AdvanceTime(QueueTimeStep, now + QueueTimeStep)
  ELSE AdvanceTime(QueueTimeStep, LiveMaxTime)

NextLive == LiveEnqueue \/ LiveTick \/ LiveAdvanceTime

SpecLive ==
  Init /\ [][NextLive]_vars /\ WF_vars(LiveTick) /\ WF_vars(LiveAdvanceTime)

\* SpecWrite: callers enqueue, for unit A and each with a completion, every
\* kind of request sendRequest encodes; the slave answers each of them with
\* its normal response or with the exception response, or stays mute.
WriteFcs ==
  {READ_COILS, READ_DISCRETE_INPUTS, FC3, FC4, WRITE_SINGLE_REGISTER,
   WRITE_MULTIPLE_REGISTERS}

\* The response and the exception response of unit A to a request of one
\* register (or of one to eight coils): byteCount 2 for registers, 1 for bits
WriteRxCandidates ==
  { MkCand("resp", UnitA, fc, TRUE,
           IF fc \in {FC3, FC4} THEN 2
           ELSE IF fc \in {READ_COILS, READ_DISCRETE_INPUTS} THEN 1 ELSE 0,
           0, 1, FALSE) : fc \in WriteFcs }
  \cup { MkCand("exc", UnitA, fc + 128, TRUE, 0, 0, 0, FALSE) : fc \in WriteFcs }

WriteRxBuffers == {<<>>} \cup {<<c>> : c \in WriteRxCandidates}

WriteEnqueue ==
  /\ QueueHasRoom
  /\ \/ \E fc \in {READ_COILS, READ_DISCRETE_INPUTS, FC3, FC4} :
          queueReadRegisters(UnitA, fc, 0, 1, "user", FALSE, QueueRequests)
     \/ queueWriteSingleRegister(UnitA, 0, 1, "user", FALSE, QueueRequests)
     \/ queueWriteMultipleRegisters(UnitA, 0, <<1>>, "user", FALSE, QueueRequests)
  /\ ev' = EmptyEv
  /\ UNCHANGED <<pollBatches, tx, loopCounter, web>>

WriteTick ==
  \E rx \in WriteRxBuffers, gap \in {"fast", "none"} : Tick(rx, gap, <<>>)

WriteAdvanceTime == AdvanceTime(QueueTimeStep, QueueMaxTime)

NextWrite == WriteEnqueue \/ WriteTick \/ WriteAdvanceTime

SpecWrite == Init /\ [][NextWrite]_vars

\* SpecAdmit: the admission check of the enqueue functions. Callers enqueue
\* a read of unit A, a single write to unit B and a multiple write to unit A,
\* with free heap above or below the low-water mark; no unit answers, so
\* that units get paused. Rejected calls are followed until
\* ownRequestsDiscarded reaches MaxDiscarded.
AdmitEnqueue ==
  \E heapLow \in BOOLEAN, k \in {"read", "write", "writeMulti"} :
    LET req == IF k = "read" THEN MkRequest(0, UnitA, FC3, 0, 1, <<>>, "none")
               ELSE IF k = "write"
               THEN MkRequest(0, UnitB, WRITE_SINGLE_REGISTER, 0, 1, <<1>>, "none")
               ELSE MkRequest(0, UnitA, WRITE_MULTIPLE_REGISTERS, 0, 2, <<1, 2>>, "none")
        accept == EnqueueAccepts(requestQueue, heapLow)
    IN /\ accept \/ stats.ownRequestsDiscarded < MaxDiscarded
       /\ IF k = "read" THEN queueReadRegisters(UnitA, FC3, 0, 1, "none", heapLow, 0)
          ELSE IF k = "write"
          THEN queueWriteSingleRegister(UnitB, 0, 1, "none", heapLow, 0)
          ELSE queueWriteMultipleRegisters(UnitA, 0, <<1, 2>>, "none", heapLow, 0)
       /\ ev' = [EmptyEv EXCEPT !.enqCalled = TRUE, !.enqReq = req,
                                !.enqHeapLow = heapLow, !.enqResult = accept]
       /\ UNCHANGED <<pollBatches, tx, loopCounter, web>>

AdmitTick == \E gap \in {"fast", "none"} : Tick(<<>>, gap, <<>>)

AdmitAdvanceTime == AdvanceTime(QueueTimeStep, AdmitMaxTime)

NextAdmit == AdmitEnqueue \/ AdmitTick \/ AdmitAdvanceTime

SpecAdmit == Init /\ [][NextAdmit]_vars

\* SpecRace: queueReadRegisters called by the web server task (the handler
\* of /api/modbus/raw/read) while the main task runs loop() and the MQTT
\* raw-read handler. The engine takes no lock, so the steps of the web task
\* interleave freely with the calls of the main task.
\*
\* The admission checks of the web task's call pass (a rejected call
\* touches no queue element).
WebCheck ==
  /\ web.pc = "idle"
  /\ nextId <= QueueRequests
  /\ EnqueueAccepts(requestQueue, FALSE)
  /\ web' = [web EXCEPT !.pc = "checked",
                        !.req = MkRequest(nextId, UnitA, FC3, 0, 1, <<>>, "none")]
  /\ nextId' = nextId + 1
  /\ ev' = EmptyEv
  /\ UNCHANGED <<now, requestQueue, currentRequest, hasPendingRequest,
                 waitingForResponse, requestSentTime, backoffByUnit,
                 lastRequestPerUnit, pollBatches, tx, loopCounter, completions,
                 currentValues, registerMaps, stats, suspended, dm, frameHistory>>

\* push_back of the web task reads the end of the vector
WebPushBegin ==
  /\ web.pc = "checked"
  /\ web' = [web EXCEPT !.pc = "push",
                        !.seenEnd = Len(requestQueue),
                        !.seenLast = IF requestQueue = <<>> THEN NoRequest
                                     ELSE requestQueue[Len(requestQueue)]]
  /\ ev' = EmptyEv
  /\ UNCHANGED <<now, requestQueue, currentRequest, hasPendingRequest,
                 waitingForResponse, requestSentTime, backoffByUnit,
                 lastRequestPerUnit, pollBatches, tx, loopCounter, nextId,
                 completions, currentValues, registerMaps, stats, suspended, dm, frameHistory>>

\* What push_back can leave in the vector when it has read the end at
\* seenEnd and the vector now holds q (a data race when the main task has
\* erased or pushed in between). Without interference the request is
\* appended. After an erase the element is written past the new end: the
\* request is appended or lost, and the slot the erase vacated (still holding
\* a copy of stale) can come back into the vector. After a push of the main
\* task the element overwrites the slot the main task filled.
PushBackOutcomes(q, req, seenEnd, stale) ==
  IF Len(q) = seenEnd THEN {Append(q, req)}
  ELSE IF Len(q) < seenEnd
  THEN {Append(q, req), q, Append(q, stale), q \o <<stale, req>>}
  ELSE {Append(q, req), Append(SubSeq(q, 1, seenEnd), req)}

\* push_back of the web task writes the element and the new end, and
\* queueReadRegisters returns true
WebPushEnd ==
  /\ web.pc = "push"
  /\ \E q2 \in PushBackOutcomes(requestQueue, web.req, web.seenEnd, web.seenLast) :
       requestQueue' = q2
  /\ web' = [web EXCEPT !.pc = "idle", !.accepted = @ \cup {web.req.id}]
  /\ ev' = [EmptyEv EXCEPT !.enqCalled = TRUE, !.enqReq = web.req,
                           !.enqResult = TRUE]
  /\ UNCHANGED <<now, currentRequest, hasPendingRequest,
                 waitingForResponse, requestSentTime, backoffByUnit,
                 lastRequestPerUnit, pollBatches, tx, loopCounter, nextId,
                 completions, currentValues, registerMaps, stats, suspended, dm, frameHistory>>

\* The MQTT raw-read handler, called from the main task, enqueues a read of
\* unit B with a completion
MqttEnqueue ==
  /\ QueueHasRoom
  /\ queueReadRegisters(UnitB, FC3, 0, 1, "user", FALSE, QueueRequests)
  /\ web' = [web EXCEPT !.accepted = @ \cup {nextId}]
  /\ ev' = EmptyEv
  /\ UNCHANGED <<pollBatches, tx, loopCounter>>

\* loop() of the main task on a silent bus
RaceTick ==
  /\ \E gap \in {"fast", "none"} : LoopBody(<<>>, gap, <<>>)
  /\ web' = [web EXCEPT !.left = @ \cup
                ({requestQueue[i].id : i \in 1..Len(requestQueue)}
                 \ {requestQueue'[i].id : i \in 1..Len(requestQueue')})]
  /\ UNCHANGED loopCounter

RaceAdvanceTime == AdvanceTime(QueueTimeStep, QueueMaxTime)

NextRace ==
  WebCheck \/ WebPushBegin \/ WebPushEnd \/ MqttEnqueue \/ RaceTick
  \/ RaceAdvanceTime

SpecRace == Init /\ [][NextRace]_vars

\* SpecSuspend: OTA suspends and resumes the engine while callers go on
\* enqueueing reads with a completion and unit A answers or stays mute.
SuspendEnqueue ==
  /\ QueueHasRoom
  /\ queueReadRegisters(UnitA, FC3, 0, 1, "user", FALSE, QueueRequests)
  /\ ev' = EmptyEv
  /\ UNCHANGED <<pollBatches, tx, loopCounter, web>>

SuspendTick ==
  \E rx \in {<<>>, <<MkCand("resp", UnitA, FC3, TRUE, 2, 0, 0, FALSE)>>},
     gap \in {"fast", "none"} : Tick(rx, gap, <<>>)

SuspendAdvanceTime == AdvanceTime(QueueTimeStep, QueueMaxTime)

NextSuspend ==
  suspend \/ resume \/ SuspendEnqueue \/ SuspendTick \/ SuspendAdvanceTime

SpecSuspend == Init /\ [][NextSuspend]_vars

\* SpecBytes: the bus delivers bytes. A caller reads one register or 126
\* registers of unit A whenever the engine is idle, unit A answers with one
\* or two registers or with an exception, the request comes back as an
\* echo, and a second master reads two registers of unit B, which answers
\* with two registers or, later, with one. An RX buffer holds one frame, or
\* the request of the second master and its answer sent back to back, and is
\* processed in the millisecond its first byte was read.
\* sendFrame: the bytes followed by their CRC, low byte first
WithCrc(bytes) ==
  bytes \o <<calculateCRC(bytes) % 256, calculateCRC(bytes) \div 256>>

\* Mutant: the start register and the quantity are sent low byte first
ReadRequestBytes_LowFirst(unitId, fc, start, qty) ==
  WithCrc(<<unitId, fc, LoByte(start), HiByte(start), LoByte(qty), HiByte(qty)>>)

\* The bytes sendRequest transmits for a read
ReadRequestBytes(unitId, fc, start, qty) ==
  WithCrc(<<unitId, fc, HiByte(start), LoByte(start), HiByte(qty), LoByte(qty)>>)

WordBytes(words) ==
  [i \in 1..(2 * Len(words)) |->
     IF i % 2 = 1 THEN HiByte(words[(i + 1) \div 2])
     ELSE LoByte(words[i \div 2])]

\* The bytes of a slave's read response and of its exception response
ReadResponseBytes(unitId, fc, words) ==
  WithCrc(<<unitId, fc, 2 * Len(words)>> \o WordBytes(words))

ExceptionBytes(unitId, fc, code) == WithCrc(<<unitId, fc + 128, code>>)

\* A frame on the bus: what it is and the bytes sent for it
BusRequest(unitId, fc, start, qty) ==
  [kind |-> "req", unitId |-> unitId, functionCode |-> fc,
   payload |-> <<HiByte(start), LoByte(start), HiByte(qty), LoByte(qty)>>,
   bytes |-> ReadRequestBytes(unitId, fc, start, qty)]

BusResponse(unitId, fc, words) ==
  [kind |-> "resp", unitId |-> unitId, functionCode |-> fc,
   payload |-> <<2 * Len(words)>> \o WordBytes(words),
   bytes |-> ReadResponseBytes(unitId, fc, words)]

BusException(unitId, fc, code) ==
  [kind |-> "exc", unitId |-> unitId, functionCode |-> fc + 128,
   payload |-> <<>>, bytes |-> ExceptionBytes(unitId, fc, code)]

\* The CRC-valid frames on the bus (4660 = 0x1234, 256 = 0x0100)
BusFrames ==
  { BusResponse(UnitA, FC3, <<4660>>), BusResponse(UnitA, FC3, <<0, 256>>),
    BusResponse(UnitA, FC3, <<1, 2>>), BusException(UnitA, FC3, 2),
    BusRequest(UnitA, FC3, 0, 1), BusRequest(UnitB, FC3, 0, 2),
    BusResponse(UnitB, FC3, <<1, 2>>), BusResponse(UnitB, FC3, <<4660>>) }

\* The request of the second master and the answer to it, back to back
BusExchange ==
  ReadRequestBytes(UnitB, FC3, 0, 2) \o ReadResponseBytes(UnitB, FC3, <<1, 2>>)

\* What one call of loop() finds in the RX buffer
BytesRxBuffers ==
  { <<>>, BusExchange,
    ReadResponseBytes(UnitA, FC3, <<4660>>),
    ReadResponseBytes(UnitA, FC3, <<0, 256>>),
    ReadResponseBytes(UnitA, FC3, <<1, 2>>),
    ExceptionBytes(UnitA, FC3, 2),
    ReadRequestBytes(UnitA, FC3, 0, 1),
    ReadResponseBytes(UnitB, FC3, <<1, 2>>),
    ReadResponseBytes(UnitB, FC3, <<4660>>) }

\* What callers enqueue: (start register, quantity) of a read of unit A
BytesEnqueueInputs == {<<0, 1>>, <<0, 126>>}

BytesEnqueue ==
  \E i \in BytesEnqueueInputs :
    /\ requestQueue = <<>> /\ ~waitingForResponse
    /\ queueReadRegisters(UnitA, FC3, i[1], i[2], "none", FALSE, 0)
    /\ ev' = EmptyEv
    /\ UNCHANGED <<pollBatches, tx, loopCounter, web>>

BytesTick == \E buf \in BytesRxBuffers : ByteTick(buf, now, {"fast", "none"})

BytesAdvanceTime == AdvanceTime(BytesTimeStep, BytesMaxTime)

NextBytes == BytesEnqueue \/ BytesTick \/ BytesAdvanceTime

SpecBytes == Init /\ [][NextBytes]_vars

\* SpecExc: the device manager polls units A and B over the byte-level
\* extractor; the units answer with a register, with an exception or not at
\* all.
ExcRxBuffers ==
  { <<>>,
    ReadResponseBytes(UnitA, FC3, <<4660>>),
    ExceptionBytes(UnitA, FC3, 2),
    ExceptionBytes(UnitB, FC3, 2) }

ExcLoop == now > 0 /\ DeviceManagerLoop(FALSE)

ExcTick == \E buf \in ExcRxBuffers : ByteTick(buf, now, {"fast", "none"})

ExcAdvanceTime == AdvanceTime(QueueTimeStep, ExcMaxTime)

NextExc == ExcLoop \/ ExcTick \/ ExcAdvanceTime

SpecExc == Init /\ [][NextExc]_vars

\* SpecFifo: callers enqueue tracked reads of unit A, which is mute and runs
\* into its pause, and of unit B, which answers.
FifoRxBuffers ==
  { <<>>, <<MkCand("resp", UnitB, FC3, TRUE, 2, 0, 0, FALSE)>> }

FifoEnqueue ==
  \E i \in QueueEnqueueInputs :
    /\ QueueHasRoom
    /\ queueReadRegisters(i[1], i[2], 0, i[3], i[4], FALSE, FifoRequests)
    /\ ev' = EmptyEv
    /\ UNCHANGED <<pollBatches, tx, loopCounter, web>>

FifoTick ==
  \E rx \in FifoRxBuffers, gap \in {"fast", "none"} : Tick(rx, gap, <<>>)

FifoAdvanceTime == AdvanceTime(QueueTimeStep, FifoMaxTime)

NextFifo == FifoEnqueue \/ FifoTick \/ FifoAdvanceTime

SpecFifo == Init /\ [][NextFifo]_vars

\* SpecPlan: device types as the JSON files can describe them. The
\* definitions of a schema are taken from PlanDefs: neighbours, a gap, another
\* function code, another interval, an on-demand register, overlapping
\* ranges, ranges with the same start, a range longer than 125 registers and
\* the last address.
PlanDefs ==
  { MkDef("a", 0, 2, FC3, "uint16", 100000, 0, 1000),
    MkDef("b", 2, 1, FC3, "uint16", 100000, 0, 1000),
    MkDef("c", 4, 1, FC3, "uint16", 100000, 0, 1000),
    MkDef("d", 0, 1, FC4, "uint16", 100000, 0, 1000),
    MkDef("e", 3, 1, FC3, "uint16", 100000, 0, 5000),
    MkDef("f", 3, 1, FC3, "uint16", 100000, 0, 0),
    MkDef("g", 3, 100, FC3, "uint16", 100000, 0, 1000),
    MkDef("h", 100, 11, FC3, "uint16", 100000, 0, 1000),
    MkDef("i", 100, 31, FC3, "uint16", 100000, 0, 1000),
    MkDef("j", 0, 130, FC3, "uint16", 100000, 0, 1000),
    MkDef("k", 65535, 1, FC3, "uint16", 100000, 0, 1000) }

\* The lists of up to SchemaMaxDefs different definitions
RECURSIVE SchemasOfLen(_)
SchemasOfLen(n) ==
  IF n = 0 THEN {<<>>}
  ELSE {Append(s, d) : s \in SchemasOfLen(n - 1), d \in PlanDefs} \cap
       {s \in Seq(PlanDefs) : \A i, j \in 1..Len(s) : i # j => s[i] # s[j]}

PlanLoad ==
  /\ dm.op.kind = "none"
  /\ \E n \in 1..SchemaMaxDefs : \E registers \in SchemasOfLen(n) :
       loadDeviceMappings(registers)
  /\ UNCHANGED <<now, requestQueue, currentRequest, hasPendingRequest,
                 waitingForResponse, requestSentTime, backoffByUnit,
                 lastRequestPerUnit, pollBatches, tx, loopCounter, nextId,
                 completions, currentValues, registerMaps, stats, web,
                 suspended, frameHistory, ev>>

NextPlan == PlanLoad

SpecPlan == Init /\ [][NextPlan]_vars

\* ---------------------------------------------------------------------
\* The device manager: cached values and the unknown-register map
\* ---------------------------------------------------------------------
\* Values are fixed-point numbers in units of 0.00001 (as conversionFactor
\* and offset are in MkDef), so 0.0001f is 10 units. The schemas of this
\* model use the 16-bit data types only.

ValueEpsilon == 10

MAX_UNKNOWN_U16_PER_DEVICE == 512

PairingWindowMs == 2000

valuesDiffer(a, b) ==
  LET diff == IF a - b < 0 THEN -(a - b) ELSE a - b
  IN diff > ValueEpsilon

\* rawData are the words from the definition's offset on
convertRawToValue(def, rawData) ==
  LET rawValue ==
        CASE def.dataType = "uint16" -> rawData[1]
          [] def.dataType = "int16" ->
               IF rawData[1] >= 32768 THEN rawData[1] - 65536 ELSE rawData[1]
          [] def.dataType = "bool" -> IF rawData[1] # 0 THEN 1 ELSE 0
  IN rawValue * def.conversionFactor + def.offset

\* The words of a read response: data[1] is the byte count
RegisterWords(data) ==
  [i \in 1..(getByteCount(data) \div 2) |-> ResponseWord(data, i - 1)]

\* notifyValueChange with the callback main.cpp registers
notifyValueChange(d, registerName, value) ==
  [d EXCEPT !.notified = Append(@, [name |-> registerName, value |-> value])]

\* The loop of applyReadResponseToDevice over the definitions from the
\* i-th on
RECURSIVE ApplyReadLoop(_, _, _, _, _, _)
ApplyReadLoop(d, i, functionCode, pollIntervalMs, startAddress, words) ==
  IF i > Len(d.registers) THEN d
  ELSE
    LET reg == d.registers[i]
        offset == reg.address - startAddress
        covered ==
          /\ reg.pollIntervalMs = pollIntervalMs
          /\ reg.functionCode = functionCode
          /\ reg.dataType # "string"
          /\ reg.address >= startAddress
          /\ offset + reg.length <= Len(words)
        value == convertRawToValue(
                   reg, SubSeq(words, offset + 1, offset + reg.length))
        cached == [d EXCEPT !.values[reg.name] =
                                [valid |-> TRUE, value |-> value]]
    IN ApplyReadLoop(
         IF covered THEN notifyValueChange(cached, reg.name, value) ELSE d,
         i + 1, functionCode, pollIntervalMs, startAddress, words)

applyReadResponseToDevice(d, functionCode, pollIntervalMs, startAddress, response) ==
  IF ~response.isValid \/ response.isException THEN d
  ELSE IF Len(response.data) <= 1 \/ getByteCount(response.data) < 2 THEN d
  ELSE ApplyReadLoop(d, 1, functionCode, pollIntervalMs, startAddress,
                     RegisterWords(response.data))

\* The failure branch of the poll completion: the covered values become
\* invalid
RECURSIVE InvalidateLoop(_, _, _, _, _, _)
InvalidateLoop(d, i, fc, interval, startAddr, qty) ==
  IF i > Len(d.registers) THEN d
  ELSE
    LET reg == d.registers[i]
        covered ==
          /\ reg.pollIntervalMs = interval
          /\ reg.functionCode = fc
          /\ reg.address >= startAddr
          /\ (reg.address - startAddr) + reg.length <= qty
    IN InvalidateLoop(
         IF covered THEN [d EXCEPT !.values[reg.name].valid = FALSE] ELSE d,
         i + 1, fc, interval, startAddr, qty)

\* The completion ModbusDeviceManager::loop hands to queueReadRegisters for
\* a batch (fc, interval, startAddr, qty)
PollCompletion(d, fc, interval, startAddr, qty, success, response) ==
  IF ~d.mapped THEN d
  ELSE IF success /\ response.isValid /\ ~response.isException
  THEN applyReadResponseToDevice([d EXCEPT !.counted.success = @ + 1],
                                 fc, interval, startAddr, response)
  ELSE InvalidateLoop([d EXCEPT !.counted.error = @ + 1], 1, fc, interval,
                      startAddr, qty)

\* The first loop of tryUpdateFromPassiveResponse over the definitions
\* from the i-th on; the result holds the device and matchedAny.
RECURSIVE PassiveLoop(_, _, _, _, _, _)
PassiveLoop(d, i, fc, startReg, words, matchedAny) ==
  IF i > Len(d.registers) THEN [device |-> d, matchedAny |-> matchedAny]
  ELSE
    LET reg == d.registers[i]
        offset == reg.address - startReg
        covered ==
          /\ reg.functionCode = fc
          /\ reg.dataType # "string"
          /\ reg.address >= startReg
          /\ offset + reg.length <= Len(words)
        value == convertRawToValue(
                   reg, SubSeq(words, offset + 1, offset + reg.length))
        old == d.values[reg.name]
        shouldNotify == ~old.valid \/ valuesDiffer(old.value, value)
        cached == [d EXCEPT !.values[reg.name] =
                                [valid |-> TRUE, value |-> value]]
    IN IF ~covered
       THEN PassiveLoop(d, i + 1, fc, startReg, words, matchedAny)
       ELSE PassiveLoop(
              IF shouldNotify THEN notifyValueChange(cached, reg.name, value)
              ELSE cached,
              i + 1, fc, startReg, words, TRUE)

\* The number of words the second loop stores before it ends or breaks.
\* The addresses of one response are all different (at most 127 words), so
\* the address of word j is new exactly if the map before the loop does
\* not hold it, and the size of the map when the loop reaches word j is
\* the size before the loop plus the new addresses among the words before
\* j. The loop breaks at the first word that is new while the size has
\* reached the cap.
UnknownStored(unknownU16, startReg, words) ==
  LET size == Cardinality(DOMAIN unknownU16)
      new == {j \in 0..(Len(words) - 1) :
                U16(startReg + j) \notin DOMAIN unknownU16}
      breaks == {j \in new :
                   size + Cardinality({k \in new : k < j})
                     >= MAX_UNKNOWN_U16_PER_DEVICE}
  IN IF breaks = {} THEN Len(words)
     ELSE CHOOSE j \in breaks : \A k \in breaks : j <= k

\* The second loop: unknownU16 after the words of a response that matched
\* no definition
StoreUnknown_NoCap(unknownU16, startReg, words) ==
  LET stored == {U16(startReg + i) : i \in 0..(Len(words) - 1)}
  IN [address \in DOMAIN unknownU16 \cup stored |->
        IF address \in stored
        THEN words[U16(address - startReg) + 1]
        ELSE unknownU16[address]]

StoreUnknown(unknownU16, startReg, words) ==
  LET n == UnknownStored(unknownU16, startReg, words)
      stored == {U16(startReg + i) : i \in 0..(n - 1)}
  IN [address \in DOMAIN unknownU16 \cup stored |->
        IF address \in stored
        THEN words[U16(address - startReg) + 1]
        ELSE unknownU16[address]]

tryUpdateFromPassiveResponse_StoresAlways(d, request, response) ==
  LET fc == response.functionCode % 128
      byteCount == getByteCount(response.data)
      startReg == request.startRegister
      words == RegisterWords(response.data)
      r == PassiveLoop(d, 1, fc, startReg, words, FALSE)
  IN IF ~response.isValid \/ response.isException THEN d
     ELSE IF fc # FC3 /\ fc # FC4 THEN d
     ELSE IF request.functionCode % 128 # fc THEN d
     ELSE IF Len(response.data) <= 1 \/ byteCount < 2 THEN d
     ELSE [r.device EXCEPT !.unknownU16 = StoreUnknown(@, startReg, words)]

tryUpdateFromPassiveResponse(d, request, response) ==
  LET fc == response.functionCode % 128
      byteCount == getByteCount(response.data)
      startReg == request.startRegister
      words == RegisterWords(response.data)
      r == PassiveLoop(d, 1, fc, startReg, words, FALSE)
  IN IF ~response.isValid \/ response.isException THEN d
     ELSE IF fc # FC3 /\ fc # FC4 THEN d
     ELSE IF request.functionCode % 128 # fc THEN d
     ELSE IF Len(response.data) <= 1 \/ byteCount < 2 THEN d
     ELSE IF r.matchedAny THEN r.device
     ELSE [d EXCEPT !.unknownU16 = StoreUnknown(@, startReg, words)]

\* handleObservedFrame; timestamp is frame.timestamp
handleObservedFrame(d, frame, isRequest, timestamp) ==
  IF isRequest /\ frame.isValid
  THEN [d EXCEPT !.lastSeenRequests[frame.unitId] =
                     [present |-> TRUE, functionCode |-> frame.functionCode,
                      startRegister |-> getStartRegister(frame.data),
                      quantity |-> getQuantity(frame.data),
                      timestamp |-> timestamp]]
  ELSE IF ~d.mapped \/ frame.unitId # DeviceUnit THEN d
  ELSE IF ~frame.isValid THEN d
  ELSE IF frame.isException THEN [d EXCEPT !.counted.error = @ + 1]
  ELSE
    LET request == d.lastSeenRequests[frame.unitId]
        counted == [d EXCEPT !.counted.success = @ + 1]
    IN IF request.present
          /\ Sub32(timestamp, request.timestamp) < PairingWindowMs
       THEN tryUpdateFromPassiveResponse(counted, request, frame)
       ELSE counted

\* ---------------------------------------------------------------------
\* The steps of the device manager outside ModbusDeviceManager::loop
\* ---------------------------------------------------------------------

\* The engine hands a frame to the observer
ObserveFrame(frame, isRequest) ==
  /\ dm' = [handleObservedFrame([dm EXCEPT !.notified = <<>>,
                                            !.counted = NoCount],
                                frame, isRequest, now)
              EXCEPT !.op = [kind |-> "observed", isRequest |-> isRequest]]
  /\ UNCHANGED <<now, requestQueue, currentRequest, hasPendingRequest,
                 waitingForResponse, requestSentTime, backoffByUnit,
                 lastRequestPerUnit, pollBatches, tx, loopCounter, nextId,
                 completions, currentValues, registerMaps, stats, web,
                 suspended, frameHistory, ev>>

\* The engine completes the poll of batch b of the plan
PollCompleted(b, success, response) ==
  /\ dm.mapped
  /\ dm' = [PollCompletion([dm EXCEPT !.notified = <<>>, !.counted = NoCount],
                           b.functionCode, b.pollIntervalMs, b.startAddress,
                           b.quantity, success, response)
              EXCEPT !.op = [kind |-> "poll", success |-> success]]
  /\ UNCHANGED <<now, requestQueue, currentRequest, hasPendingRequest,
                 waitingForResponse, requestSentTime, backoffByUnit,
                 lastRequestPerUnit, pollBatches, tx, loopCounter, nextId,
                 completions, currentValues, registerMaps, stats, web,
                 suspended, frameHistory, ev>>

\* setup() loads the mappings of the one device
LoadDevice(registers) ==
  /\ ~dm.mapped
  /\ loadDeviceMappings(registers)
  /\ UNCHANGED <<now, requestQueue, currentRequest, hasPendingRequest,
                 waitingForResponse, requestSentTime, backoffByUnit,
                 lastRequestPerUnit, pollBatches, tx, loopCounter, nextId,
                 completions, currentValues, registerMaps, stats, web,
                 suspended, frameHistory, ev>>

\* A read request and a read response as the extractor emits them
ObservedRequest(unitId, fc, start, qty) ==
  MkFrame(unitId, fc, TRUE, TRUE, FALSE, 0, start, qty)

ObservedResponse(unitId, fc, words) ==
  ParsedFrame(unitId, fc, TRUE, FALSE, 0, <<2 * Len(words)>> \o WordBytes(words))

ObservedException(unitId, fc, code) ==
  ParsedFrame(unitId, fc + 128, TRUE, TRUE, code, <<code>>)

\* ---------------------------------------------------------------------
\* SpecValues: a device with two polled registers next to each other and
\* an on-demand one, polled by the manager and seen on the bus. Word 1
\* moves "a" by 0.00004 and word 3 by 0.00012; "t" moves by 0.00007 a count.
\* ---------------------------------------------------------------------
ValuesMaxTime == 2000

ValuesSchema ==
  << MkDef("a", 0, 1, FC3, "uint16", 4, 0, 1000),
     MkDef("t", 1, 1, FC3, "int16", 7, 100, 1000),
     MkDef("s", 5, 1, FC3, "bool", 100000, 0, 0) >>

ValuesWords == {<<0, 0>>, <<1, 65535>>, <<3, 1>>}

ValuesRequests ==
  { ObservedRequest(UnitA, FC3, 0, 2), ObservedRequest(UnitA, FC3, 5, 2),
    ObservedRequest(UnitA, FC4, 0, 2), ObservedRequest(UnitB, FC3, 0, 2) }

ValuesResponses ==
  {ObservedResponse(UnitA, FC3, words) : words \in ValuesWords} \cup
  { ObservedResponse(UnitA, FC4, <<5, 6>>),
    ObservedResponse(UnitB, FC3, <<3, 1>>),
    ObservedException(UnitA, FC3, 2) }

ValuesLoad == LoadDevice(ValuesSchema)

ValuesObserveRequest == \E frame \in ValuesRequests : ObserveFrame(frame, TRUE)

ValuesObserveResponse ==
  \E frame \in ValuesResponses : ObserveFrame(frame, FALSE)

ValuesPollSuccess ==
  \E i \in 1..Len(dm.plan), words \in ValuesWords :
    /\ Len(words) = dm.plan[i].quantity
    /\ PollCompleted(dm.plan[i], TRUE,
                     ObservedResponse(DeviceUnit, dm.plan[i].functionCode, words))

ValuesPollFailure ==
  \E i \in 1..Len(dm.plan) :
    \/ PollCompleted(dm.plan[i], FALSE, NoFrame)
    \/ PollCompleted(dm.plan[i], FALSE,
                     ObservedException(DeviceUnit, dm.plan[i].functionCode, 2))

ValuesAdvanceTime == AdvanceTime(PairingWindowMs, ValuesMaxTime)

NextValues ==
  \/ ValuesLoad
  \/ ValuesObserveRequest
  \/ ValuesObserveResponse
  \/ ValuesPollSuccess
  \/ ValuesPollFailure
  \/ ValuesAdvanceTime

SpecValues == Init /\ [][NextValues]_vars

\* ---------------------------------------------------------------------
\* SpecUnknown: a master that scans blocks of 125 registers of the device
\* of SpecValues, seen on the bus. Block 0 holds the defined registers,
\* the last request wraps around the end of the address space.
\* ---------------------------------------------------------------------
UnknownBlocks == 5

UnknownStarts ==
  {0, 65500} \cup {MAX_REGS_PER_READ * k : k \in 1..UnknownBlocks}

UnknownRequests ==
  {ObservedRequest(UnitA, FC3, start, MAX_REGS_PER_READ) :
     start \in UnknownStarts}

UnknownResponses ==
  { ObservedResponse(UnitA, FC3, [i \in 1..MAX_REGS_PER_READ |-> i]),
    ObservedResponse(UnitA, FC4, <<7, 7>>) }

UnknownLoad == LoadDevice(ValuesSchema)

UnknownObserveRequest ==
  \E frame \in UnknownRequests : ObserveFrame(frame, TRUE)

UnknownObserveResponse ==
  \E frame \in UnknownResponses : ObserveFrame(frame, FALSE)

NextUnknown ==
  \/ UnknownLoad
  \/ UnknownObserveRequest
  \/ UnknownObserveResponse

SpecUnknown == Init /\ [][NextUnknown]_vars

TypeOK ==
  /\ now \in 0..WrappedDiff
  /\ Len(requestQueue) <= MaxQueueSize
  /\ hasPendingRequest \in BOOLEAN
  /\ waitingForResponse \in BOOLEAN

\* ------------------------------------------------------------------------
\* Claims
\* ------------------------------------------------------------------------
InFlight == waitingForResponse /\ hasPendingRequest

QueuedIds == {requestQueue[i].id : i \in 1..Len(requestQueue)}

\* C1: in every reachable state _waitingForResponse is true exactly when an
\* in-flight request is present (_hasPendingRequest), and processQueue has
\* transmitted a request only when no request was in flight.
C1_SingleInFlight ==
  /\ waitingForResponse <=> hasPendingRequest
  /\ (ev.sent # NoRequest =>
        /\ ev.pqCalled /\ ~ev.pqInFlight
        /\ InFlight /\ currentRequest = ev.sent)

\* C1 witness: a response released the in-flight request and the same tick
\* transmitted the next request.
C1_Witness ==
  ev.released.happened /\ ev.sent # NoRequest /\ InFlight

\* What the claim C2 requires of a frame to release the in-flight request
C2_Condition(f) ==
  /\ InFlight
  /\ f.isValid
  /\ ~f.isRequest
  /\ f.unitId = currentRequest.unitId
  /\ \/ f.functionCode = currentRequest.functionCode
     \/ f.functionCode = FcBase(currentRequest.functionCode) + 128
  /\ ((~f.isException /\ f.functionCode \in {FC3, FC4})
        => f.byteCount = 2 * currentRequest.quantity)

\* C2: in every reachable state and for every frame the extractor emits from
\* the RX buffer, the frame releases the in-flight request if and only if a
\* request is in flight and the frame is CRC-valid, a response, of the
\* in-flight unit, of the in-flight function code or its exception form, and
\* (non-exception FC3/FC4) has byteCount = 2 x the in-flight quantity.
C2_ReleaseIff ==
  \A c \in RxCandidates :
    LET f == ExtractCandidate(EngineState, c, now)
        s1 == ProcessFrame(EngineState, f, now)
        released == InFlight /\ ~(s1.waiting /\ s1.has)
    IN f # NoFrame => (released <=> C2_Condition(f))

\* C2 witness: an exception response has released an in-flight FC3 request.
C2_Witness ==
  /\ ev.released.happened
  /\ ev.released.frame.isException
  /\ ev.released.req.functionCode = FC3
  /\ ~InFlight

\* C3 (state part): no completion was invoked more than once; a request that
\* is still queued or in flight, that has just timed out or that the timeout
\* clean-up has just dropped was never completed; a request consumed by a
\* response was completed exactly once.
C3_State ==
  /\ \A id \in DOMAIN completions : completions[id] <= 1
  /\ \A id \in QueuedIds \cap DOMAIN completions : completions[id] = 0
  /\ (InFlight /\ currentRequest.cb = "user" => completions[currentRequest.id] = 0)
  /\ (ev.timedOut /\ ev.toReq.cb = "user" => completions[ev.toReq.id] = 0)
  /\ (ev.timedOut =>
        \A i \in 1..Len(ev.toQueueBefore) :
           ev.toQueueBefore[i].cb = "user" => completions[ev.toQueueBefore[i].id] = 0)
  /\ (ev.released.happened /\ ev.released.req.cb = "user"
        => completions[ev.released.req.id] = 1)

\* C3 (step part): a completion count changes only by one, only for the
\* request that was in flight before the step, and only in a step in which a
\* response consumed that request.
C3_Step ==
  \A id \in DOMAIN completions :
    completions'[id] # completions[id] =>
      /\ InFlight /\ currentRequest.id = id
      /\ ev'.released.happened /\ ev'.released.req.id = id
      /\ ~ev'.timedOut
      /\ completions'[id] = completions[id] + 1

\* C3: the completion of every enqueued request is invoked at most once,
\* exactly once when a response consumes it as the in-flight request, and
\* never on timeout, on clean-up or while queued.
C3_CompletionOnce == []C3_State /\ [][C3_Step]_vars

\* C3 witness: one request was completed by its response, and another one
\* has just timed out and left the engine without completion.
C3_Witness ==
  /\ \E id \in DOMAIN completions : completions[id] = 1
  /\ ev.timedOut /\ ev.toReq.cb = "user"
  /\ completions[ev.toReq.id] = 0
  /\ ev.toReq.id \notin QueuedIds
  /\ ~InFlight

\* C4: with loop() called for ever and time advancing, a request in flight
\* is eventually released, by a response that consumes it or by the timeout,
\* and the timeout fires only when more than responseTimeoutMs have elapsed
\* since the request was sent.
C4_EventuallyReleased ==
  /\ InFlight ~> (~InFlight \/ ev.released.happened \/ ev.timedOut)
  /\ [](ev.timedOut => ev.toElapsed > ResponseTimeoutMs)

\* C4 witness: the request in flight has timed out and the engine is idle
\* with a request left in the queue.
C4_Witness ==
  /\ ev.timedOut /\ ev.toElapsed > ResponseTimeoutMs
  /\ ~waitingForResponse /\ ~hasPendingRequest
  /\ requestQueue # <<>>

\* C5: every transmission a tick starts happens with the UART last seen
\* empty and with at least the required silence since the last bus activity
\* the engine has seen, on the fast path and in the arbitration loop; a byte
\* read during arbitration therefore restarts the measurement.
C5_TransmitOnlyAfterSilence ==
  ev.sent # NoRequest =>
    /\ ev.txPath \in {"fast", "arb"}
    /\ ev.txObservedEmpty
    /\ ev.txQuietUs >= SilenceTimeUs

\* C5 witness: a request was transmitted out of the arbitration loop after a
\* byte had been read in that loop.
C5_Witness ==
  /\ ev.sent # NoRequest /\ ev.txPath = "arb"
  /\ tx.lastRxUs > tx.startUs

\* C5, fast path reached: a request was transmitted on the fast path.
C5_FastPathTaken == ev.sent # NoRequest /\ ev.txPath = "fast"

\* C6 (as claimed): whenever processQueue runs, it transmits the first request
\* in queue order whose unit is not paused and removes exactly it; if every
\* queued request belongs to a paused unit it transmits nothing and leaves the
\* queue unchanged.
C6_FirstUnpausedSent ==
  ev.pqCalled =>
    LET q == ev.pqQueue
        idx == {i \in 1..Len(q) : q[i].unitId \notin ev.pqPaused}
    IN IF idx = {}
       THEN ev.sent = NoRequest /\ requestQueue = q
       ELSE ev.sent = q[Min(idx)] /\ requestQueue = RemoveAt(q, Min(idx))

\* C7 (as claimed): whenever the scheduler runs while unit A is paused, unit
\* B is not paused, B's poll batch is due and outside its retry cool-down,
\* nothing is in flight and the queue holds nothing but polls the scheduler
\* queued for A, it enqueues B's poll: B does not wait for A's pause to end.
C7_HealthyUnitPolled ==
  ( /\ ev.schedRan
    /\ isUnitQueueingPaused(backoffByUnit, UnitA, now)
    /\ ~isUnitQueueingPaused(backoffByUnit, UnitB, now)
    /\ UnitB \in SchedCandidates
    /\ NextDue(pollBatches[UnitB]) <= now
    /\ ~InFlight
    /\ ev.schedQueued # UnitA
    /\ requestQueue # <<>>
    /\ \A i \in 1..Len(requestQueue) :
         requestQueue[i].unitId = UnitA /\ requestQueue[i].cb = "poll" )
  => ev.schedQueued = UnitB

\* C8: when a request to unit A times out and the queue holds more than half
\* of its capacity, exactly the queued requests of unit A are removed and the
\* others keep their order; otherwise the timeout removes nothing.
C8_CleanupOnlyTimedOutUnit ==
  ev.timedOut =>
    IF 2 * Len(ev.toQueueBefore) > MaxQueueSize
    THEN ev.toQueueAfter =
           SelectSeq(ev.toQueueBefore, LAMBDA r : r.unitId # ev.toReq.unitId)
    ELSE ev.toQueueAfter = ev.toQueueBefore

\* C8 witness: a timeout of unit A dropped a queued request of A and kept a
\* queued request of unit B.
C8_Witness ==
  /\ ev.timedOut /\ ev.toReq.unitId = UnitA
  /\ Len(ev.toQueueAfter) < Len(ev.toQueueBefore)
  /\ \E i \in 1..Len(ev.toQueueAfter) : ev.toQueueAfter[i].unitId = UnitB

\* The pause lengths the claim C9 lists, by number of consecutive timeouts
PauseSeries == <<0, 0, 2000, 4000, 8000, 16000, 32000, 60000, 60000>>

PauseOf(n) == IF n <= Len(PauseSeries) THEN PauseSeries[n] ELSE 60000

\* C9: the n-th consecutive timeout of a unit leaves the unit unpaused for
\* n = 1, 2; for n >= 3 it sets pausedUntilMs = now + backoffMs, with pauses
\* of 2000, 4000, 8000, 16000, 32000, 60000, 60000, ... ms, and leaves
\* backoffMs at the next pause length, never above 60000; after the third
\* timeout consecutiveTimeouts = 3, the pause is 2000 ms and backoffMs = 4000.
\* The back-off state of every other unit is unchanged by the timeout.
C9_BackoffSeries ==
  ev.timedOut =>
    LET u == ev.toReq.unitId
        before == ev.toBackoff[u]
        after == backoffByUnit[u]
        n == before.consecutiveTimeouts + 1
    IN /\ after.consecutiveTimeouts = n
       /\ after.backoffMs <= 60000
       /\ IF n < 3
          THEN /\ ~isUnitQueueingPaused(backoffByUnit, u, ev.toNow)
               /\ after.backoffMs = 2000
               /\ after.pausedUntilMs = before.pausedUntilMs
          ELSE /\ after.pausedUntilMs = ev.toNow + before.backoffMs
               /\ before.backoffMs = PauseOf(n)
               /\ after.backoffMs = PauseOf(n + 1)
               /\ isUnitQueueingPaused(backoffByUnit, u, ev.toNow)
       /\ (n = 3 => /\ after.pausedUntilMs = ev.toNow + 2000
                    /\ after.backoffMs = 4000)
       /\ \A v \in Units \ {u} : backoffByUnit[v] = ev.toBackoff[v]

\* C9 witness: unit A has timed out for the ninth time in a row, is paused
\* for 60000 ms, and unit B carries a back-off state of its own.
C9_Witness ==
  /\ ev.timedOut /\ ev.toReq.unitId = UnitA
  /\ backoffByUnit[UnitA].consecutiveTimeouts = 9
  /\ backoffByUnit[UnitA].pausedUntilMs = ev.toNow + 60000
  /\ backoffByUnit[UnitB].consecutiveTimeouts >= 3

C11_TimeoutInvalidates ==
  (ev.timedOut /\ ev.toReq.cb = "poll") =>
    ~currentValues[ev.toReq.unitId].valid

\* The candidate is the well-formed answer of the addressed unit to the
\* request in flight: CRC-valid, same unit, same base function code, normal
\* response (for a register read of the requested length) or exception.
C12_Answers(c) ==
  /\ InFlight
  /\ sendRequest(currentRequest)
  /\ c.crcOk
  /\ c.kind \in {"resp", "exc"}
  /\ c.unitId = currentRequest.unitId
  /\ FcBase(c.functionCode) = FcBase(currentRequest.functionCode)
  /\ (c.kind = "exc" <=> c.functionCode >= 128)
  /\ (c.kind = "resp" /\ c.functionCode \in {FC3, FC4}
        => c.byteCount = 2 * currentRequest.quantity)

\* C12 (as claimed): for every function code sendRequest transmits (0x01,
\* 0x02, 0x03, 0x04, 0x06, 0x10), the CRC-valid response or exception
\* response of the addressed unit with the same base function code, arriving
\* while the request is in flight, releases the request and invokes its
\* completion once.
C12_AcceptedFcConsumed ==
  \A c \in WriteRxCandidates :
    C12_Answers(c) =>
      LET s1 == ProcessReceivedData(EngineState, <<c>>, now)
      IN /\ ~(s1.waiting /\ s1.has)
         /\ s1.compl[currentRequest.id] = completions[currentRequest.id] + 1

\* The units that are paused in the current state
PausedUnits == {u \in Units : isUnitQueueingPaused(backoffByUnit, u, now)}

\* C13 (step): an enqueue call returns TRUE and appends its request at the
\* tail exactly when the queue held fewer than maxQueueSize requests and
\* the heap was not low; otherwise it returns FALSE, leaves the queue as it
\* was and adds exactly one to ownRequestsDiscarded.
C13_Step ==
  ev'.enqCalled =>
    LET ok == Len(requestQueue) < MaxQueueSize /\ ~ev'.enqHeapLow IN
    /\ ev'.enqResult = ok
    /\ IF ok
       THEN /\ requestQueue' = Append(requestQueue, ev'.enqReq)
            /\ stats' = stats
       ELSE /\ requestQueue' = requestQueue
            /\ stats'.ownRequestsDiscarded = stats.ownRequestsDiscarded + 1

\* C13: every enqueue (read, write-single, write-multiple) is accepted
\* exactly when the queue holds fewer than maxQueueSize requests and free
\* heap is not below the low-water mark, whether or not the target unit is
\* paused; an accepted request is appended at the tail, a rejected one
\* increments ownRequestsDiscarded by exactly one.
C13_EnqueueAdmission == [][C13_Step]_vars

\* C13 witness: a request for a paused unit was accepted and stands at the
\* tail of the queue, and an earlier call was rejected.
C13_Witness ==
  /\ ev.enqCalled /\ ev.enqResult
  /\ ev.enqReq.unitId \in PausedUnits
  /\ requestQueue # <<>> /\ requestQueue[Len(requestQueue)] = ev.enqReq
  /\ stats.ownRequestsDiscarded > 0

\* C14 (step): a rejected enqueue changes nothing of the engine but the two
\* counters, which both grow by one.
C14_Step ==
  (ev'.enqCalled /\ ~ev'.enqResult) =>
    /\ UNCHANGED <<requestQueue, currentRequest, hasPendingRequest,
                   waitingForResponse, requestSentTime, backoffByUnit,
                   lastRequestPerUnit>>
    /\ stats' = [queueOverflows |-> stats.queueOverflows + 1,
                 ownRequestsDiscarded |-> stats.ownRequestsDiscarded + 1]

\* C14: a rejected enqueue, however often it is repeated, leaves the queue
\* contents, the in-flight request, the waiting flag and the back-off state
\* of every unit unchanged; only queueOverflows and ownRequestsDiscarded
\* change.
C14_RejectedEnqueueNoEffect == [][C14_Step]_vars

\* C14 witness: the second rejected enqueue in a row, made with a request in
\* flight, a full queue and a paused unit.
C14_Witness ==
  /\ ev.enqCalled /\ ~ev.enqResult
  /\ stats.ownRequestsDiscarded >= 2
  /\ InFlight /\ Len(requestQueue) = MaxQueueSize
  /\ PausedUnits # {}

\* C15 (as claimed): with the web task enqueueing while the main task runs
\* loop() and its own enqueue calls, the queue never holds more than
\* maxQueueSize requests, holds no request twice and only accepted requests,
\* and every accepted request is in the queue or was taken out of it by
\* loop() (sent, or dropped by the timeout clean-up).
C15_QueueExclusive ==
  /\ Len(requestQueue) <= MaxQueueSize
  /\ \A i, j \in 1..Len(requestQueue) :
       i # j => requestQueue[i].id # requestQueue[j].id
  /\ QueuedIds \subseteq web.accepted
  /\ web.accepted \subseteq (QueuedIds \cup web.left)

\* C16 (step): a step taken while the engine is suspended sends nothing,
\* takes nothing out of the queue, releases no request, invokes no
\* completion and records no observed request.
C16_Step ==
  (suspended /\ suspended') =>
    /\ ev'.sent = NoRequest
    /\ Len(requestQueue') >= Len(requestQueue)
    /\ ~ev'.released.happened
    /\ \A id \in DOMAIN completions : completions'[id] = completions[id]
    /\ lastRequestPerUnit' = lastRequestPerUnit

\* C16 (as claimed): from suspend() until resume() no queued request is
\* dequeued or transmitted, and incoming bytes produce no frame, completion
\* or other effect on the engine.
C16_SuspendedQuiet == [][C16_Step]_vars

\* The cached register values, as the set of <<unit, fc, address, value>>
RegisterValues(maps) ==
  UNION { { <<k[1], k[2], a, maps[k][a]>> : a \in DOMAIN maps[k] }
          : k \in DOMAIN maps }

\* The register contents slaves answer with in the claims below
ResponseContents == {<<4660>>, <<0, 256>>, <<1, 2>>}

\* C17 (as claimed): while a request is in flight, an FC3/FC4 response
\* candidate of the in-flight unit and function code whose byteCount differs
\* from 2 x the in-flight quantity is not emitted as a frame: the extractor
\* advances by one byte at it, the in-flight request stays pending, its
\* completion is not invoked and no register-cache value is written.
C17_MismatchSkipped ==
  (waitingForResponse /\ hasPendingRequest
   /\ currentRequest.functionCode \in {FC3, FC4}) =>
    \A words \in ResponseContents :
      2 * Len(words) # 2 * currentRequest.quantity =>
        \A after \in {processReceivedData(
                         EngineState,
                         ReadResponseBytes(currentRequest.unitId,
                                           currentRequest.functionCode, words),
                         now, now)} :
          /\ after.rx.advances[1] = 1
          /\ after.waiting /\ after.has /\ after.cur = currentRequest
          /\ ~after.ev.released.happened
          /\ RegisterValues(after.regs) = RegisterValues(registerMaps)

\* The extractor emitted the bus frame f: same unit, function code, payload
\* and classification, marked CRC-valid
EmittedAs(frame, f) ==
  /\ frame.isValid
  /\ frame.unitId = f.unitId /\ frame.functionCode = f.functionCode
  /\ frame.isRequest = (f.kind = "req")
  /\ frame.isException = (f.kind = "exc")
  /\ frame.data = f.payload

\* C18 (as claimed): for every RX buffer that is the concatenation of two
\* CRC-valid FC3/FC4 frames (request, response or exception response), one
\* extractor invocation emits exactly those two frames, in buffer order, each
\* marked CRC-valid and with its request/response classification, and emits
\* no other frame.
C18_TwoFramesExtracted ==
  \A f, g \in BusFrames :
    \A after \in {processReceivedData(EngineState, f.bytes \o g.bytes,
                                      now, now)} :
      /\ Len(after.rx.emitted) = 2
      /\ EmittedAs(after.rx.emitted[1], f)
      /\ EmittedAs(after.rx.emitted[2], g)

\* C19: while a read is in flight, the bytes of the in-flight request coming
\* back on RX are treated as an echo: otherRequestsSeen, the last-seen
\* request of every unit and the request counter of the register maps are
\* unchanged and the request stays pending; if its quantity is one the
\* extractor accepts (1..125) the frame is emitted CRC-valid as a request and
\* recognised as the echo, and the response with that many registers
\* arriving afterwards still releases the request.
C19_EchoIgnored ==
  (InFlight /\ currentRequest.functionCode \in {FC3, FC4}) =>
    \A echo \in {processReceivedData(
                    EngineState,
                    ReadRequestBytes(currentRequest.unitId,
                                     currentRequest.functionCode,
                                     currentRequest.startRegister,
                                     currentRequest.quantity),
                    now, now)} :
      /\ echo.ev.otherRequestsSeen = 0
      /\ echo.ev.mapRequestCount = 0
      /\ echo.lastReq = lastRequestPerUnit
      /\ echo.waiting /\ echo.has /\ echo.cur = currentRequest
      /\ QtyPlausible(currentRequest.quantity) =>
           /\ Len(echo.rx.emitted) = 1
           /\ echo.rx.emitted[1].isValid /\ echo.rx.emitted[1].isRequest
           /\ echo.ev.echoSeen
      /\ \A words \in ResponseContents :
           Len(words) = currentRequest.quantity =>
             \A done \in {processReceivedData(
                             echo,
                             ReadResponseBytes(currentRequest.unitId,
                                               currentRequest.functionCode,
                                               words),
                             now, now)} :
               /\ done.ev.released.happened
               /\ done.ev.released.req = currentRequest
               /\ ~done.waiting /\ ~done.has

\* C19 witness: loop() has just taken a request frame for the echo of the
\* in-flight read of one register, which is still pending.
C19_Witness ==
  /\ ev.echoSeen
  /\ InFlight /\ currentRequest.quantity = 1
  /\ ~ev.released.happened /\ ~ev.timedOut

\* The request a response of unit u with function code fc arriving now is
\* paired with: the in-flight request, or the last observed request of the
\* unit with that function code captured less than 2000 ms ago; NoSeenRequest
\* when there is none
PairedRequest(u, fc) ==
  IF InFlight /\ currentRequest.unitId = u
     /\ FcBase(currentRequest.functionCode) = fc
  THEN [present |-> TRUE, functionCode |-> currentRequest.functionCode,
        startRegister |-> currentRequest.startRegister,
        quantity |-> currentRequest.quantity, timestamp |-> requestSentTime]
  ELSE IF /\ lastRequestPerUnit[u].present
          /\ FcBase(lastRequestPerUnit[u].functionCode) = fc
          /\ Sub32(now, lastRequestPerUnit[u].timestamp) < PairWindowMs
  THEN lastRequestPerUnit[u]
  ELSE NoSeenRequest

\* The registers of (u, fc) in maps; none when the map does not exist
RegistersOf(maps, u, fc) ==
  IF <<u, fc>> \in DOMAIN maps THEN maps[<<u, fc>>] ELSE << >>

\* C20 (as claimed): when the extractor hands on a CRC-valid FC3 response
\* and there is a request it is paired with, the register cache of (unit,
\* fc) afterwards maps start+i to the i-th big-endian word of the response
\* for every i in 0..quantity-1 and is unchanged at every other address, and
\* no other cache changes; a response without such a request, and an
\* exception response, change no cached register value.
C20_PairedResponseCached ==
  \A u \in Units :
    /\ \A words \in ResponseContents :
         \A after \in {processReceivedData(
                          EngineState, ReadResponseBytes(u, FC3, words),
                          now, now)},
            req \in {PairedRequest(u, FC3)} :
           (/\ Len(after.rx.emitted) = 1
            /\ after.rx.emitted[1].isValid
            /\ ~after.rx.emitted[1].isRequest) =>
             IF req.present
             THEN /\ Len(words) = req.quantity
                  /\ RegistersOf(after.regs, u, FC3) =
                       [a \in DOMAIN RegistersOf(registerMaps, u, FC3)
                                \cup {req.startRegister + i :
                                        i \in 0..(req.quantity - 1)} |->
                          IF a >= req.startRegister
                             /\ a < req.startRegister + req.quantity
                          THEN words[a - req.startRegister + 1]
                          ELSE registerMaps[<<u, FC3>>][a]]
                  /\ \A k \in DOMAIN registerMaps \ {<<u, FC3>>} :
                       after.regs[k] = registerMaps[k]
             ELSE RegisterValues(after.regs) = RegisterValues(registerMaps)
    /\ \A after \in {processReceivedData(
                        EngineState, ExceptionBytes(u, FC3, 2), now, now)} :
         RegisterValues(after.regs) = RegisterValues(registerMaps)

\* The exception codes a slave answers with in the checks of C21
ExceptionCodes == {1, 2, 3, 4}

\* C21: when a request is in flight and the RX buffer holds the CRC-valid
\* exception response of its unit and function code, the request is released
\* (nothing is in flight afterwards), its completion, if it has one, is
\* called once with success = false and a frame with isException = true and
\* the exception code of the response, ownRequestsFailed rises by one and
\* ownRequestsSuccess does not, the unit's back-off state is reset
\* (consecutiveTimeouts = 0), and after the completion of a device manager
\* poll the register the poll covers is invalid; the engine is not suspended
\* and sends the next queued request as usual.
C21_ExceptionReleases ==
  (InFlight /\ currentRequest.functionCode \in {FC3, FC4}) =>
    \A code \in ExceptionCodes :
      LET bytes == ExceptionBytes(currentRequest.unitId,
                                  currentRequest.functionCode, code)
          s1 == processReceivedData(EngineState, bytes, now, now)
          s2 == TransmitStep(TimeoutStep(s1, now), "fast", <<>>, now)
          rel == s1.ev.released
      IN /\ rel.happened /\ rel.req = currentRequest
         /\ rel.frame.isValid /\ rel.frame.isException
         /\ rel.frame.exceptionCode = code
         /\ rel.cbCalled = (currentRequest.cb # "none")
         /\ ~rel.cbSuccess
         /\ s1.compl = InvokeCallback(completions, currentRequest)
         /\ s1.ev.ownRequestsFailed = 1 /\ s1.ev.ownRequestsSuccess = 0
         /\ s1.backoff[currentRequest.unitId].consecutiveTimeouts = 0
         /\ ~s1.waiting /\ ~s1.has
         /\ (currentRequest.cb = "poll" =>
               ~s1.vals[currentRequest.unitId].valid)
         /\ (s1.q # <<>> /\ SendIndex(s1.q, s1.backoff, now) # 0
               => s2.waiting /\ s2.has /\ s2.ev.sent # NoRequest)

\* C21 witness: the exception response with code 2 has released a poll of a
\* unit that had timed out before; the completion was called with
\* success = false and the register of the unit is invalid.
C21_Witness ==
  /\ ev.released.happened
  /\ ev.released.frame.isException /\ ev.released.frame.exceptionCode = 2
  /\ ev.released.req.cb = "poll"
  /\ ev.released.cbCalled /\ ~ev.released.cbSuccess
  /\ ev.ownRequestsFailed = 1
  /\ ev.released.backoffBefore.consecutiveTimeouts > 0
  /\ backoffByUnit[ev.released.req.unitId].consecutiveTimeouts = 0
  /\ ~currentValues[ev.released.req.unitId].valid
  /\ ~InFlight

\* Tracked requests of one unit stand in the queue in the order of their
\* ids, which is the order in which they were enqueued
QueueInEnqueueOrder(q) ==
  \A i, j \in 1..Len(q) :
    (i < j /\ q[i].unitId = q[j].unitId /\ q[i].id > 0 /\ q[j].id > 0)
      => q[i].id < q[j].id

DeviceDefs == {dm.registers[i] : i \in 1..Len(dm.registers)}

PolledDefs == {reg \in DeviceDefs : reg.pollIntervalMs > 0}

PlanBatches == {dm.plan[i] : i \in 1..Len(dm.plan)}

\* The addresses a batch reads and the addresses of a register definition
BatchAddrs(b) == b.startAddress .. (b.startAddress + b.quantity - 1)

DefAddrs(reg) == reg.address .. (reg.address + reg.length - 1)

\* The polled definitions of the function code and the interval of a batch
DefsOfBatch(b) ==
  {reg \in PolledDefs : reg.functionCode = b.functionCode
                        /\ reg.pollIntervalMs = b.pollIntervalMs}

\* C24: every batch of the poll plan has a quantity between 1 and 125 and
\* reads only addresses of polled definitions of its own function code and
\* poll interval.
C24_BatchBounds ==
  \A b \in PlanBatches :
    /\ b.quantity >= 1 /\ b.quantity <= 125
    /\ \A a \in BatchAddrs(b) : \E reg \in DefsOfBatch(b) : a \in DefAddrs(reg)

\* C25: every polled register definition lies wholly inside one batch of
\* its function code and interval, every address a batch reads belongs to a
\* polled definition of that function code and interval, and on-demand
\* definitions (pollIntervalMs = 0) have no part in the plan: no batch has
\* interval 0 and the plan is one that the polled definitions alone give.
C25_DefsInsideBatches ==
  /\ \A reg \in PolledDefs :
        \E b \in PlanBatches :
          /\ reg \in DefsOfBatch(b)
          /\ DefAddrs(reg) \subseteq BatchAddrs(b)
  /\ \A b \in PlanBatches :
        /\ b.pollIntervalMs # 0
        /\ \A a \in BatchAddrs(b) : \E reg \in DefsOfBatch(b) : a \in DefAddrs(reg)
  /\ dm.plan \in rebuildPollBatches(
                    SelectSeq(dm.registers, LAMBDA reg : reg.pollIntervalMs # 0))

\* C25 witness: a schema with an on-demand definition and two neighbouring
\* polled definitions, whose plan is the one batch merged from the two.
C25_Witness ==
  /\ \E reg \in DeviceDefs : reg.pollIntervalMs = 0
  /\ Len(dm.plan) = 1
  /\ \E b \in PlanBatches :
        \E r1, r2 \in DefsOfBatch(b) :
          /\ r1.address + r1.length = r2.address
          /\ DefAddrs(r1) \cup DefAddrs(r2) = BatchAddrs(b)

\* C26: the plan built from a schema is the plan rebuildPollBatches produces
\* for every reordering of the schema's definitions.
C26_PlanOrderIndependent ==
  \A p \in Permutations(1..Len(dm.registers)) :
    rebuildPollBatches([i \in 1..Len(dm.registers) |-> dm.registers[p[i]]])
      = {dm.plan}

\* A response of count words read from address start with function code
\* fc holds a reading of the definition reg
Decoded(reg, fc, start, count) ==
  /\ reg.functionCode = fc
  /\ reg.dataType # "string"
  /\ reg.address >= start
  /\ reg.address + reg.length <= start + count

\* The number of calls of onValueChange for a register name in a step
NotifyCount(d, name) ==
  Cardinality({i \in 1..Len(d.notified) : d.notified[i].name = name})

\* The rule of the value change threshold for definition reg in a step
\* from device state before to after, in which a reading of reg was
\* decoded or was not
ChangeRule(before, after, reg, decoded) ==
  LET old == before.values[reg.name]
      new == after.values[reg.name].value
      delta == IF new >= old.value THEN new - old.value ELSE old.value - new
  IN NotifyCount(after, reg.name) =
       IF decoded /\ (~old.valid \/ delta > ValueEpsilon) THEN 1 ELSE 0

\* The rule for every response the manager may get to a poll of its plan
ActiveChangeRule ==
  LET before == [dm EXCEPT !.notified = <<>>]
  IN \A i \in 1..Len(dm.plan), words \in ValuesWords :
       LET b == dm.plan[i]
           after == PollCompletion(
                      before, b.functionCode, b.pollIntervalMs,
                      b.startAddress, b.quantity, TRUE,
                      ObservedResponse(DeviceUnit, b.functionCode, words))
       IN Len(words) = b.quantity =>
            \A reg \in {dm.registers[k] : k \in 1..Len(dm.registers)} :
              ChangeRule(before, after, reg,
                         /\ reg.pollIntervalMs = b.pollIntervalMs
                         /\ Decoded(reg, b.functionCode, b.startAddress,
                                    Len(words)))

\* The rule for every response the manager may observe on the bus
PassiveChangeRule ==
  LET before == [dm EXCEPT !.notified = <<>>]
  IN \A frame \in ValuesResponses :
       LET request == dm.lastSeenRequests[frame.unitId]
           after == handleObservedFrame(before, frame, FALSE, now)
           paired == /\ frame.unitId = DeviceUnit
                     /\ ~frame.isException
                     /\ request.present
                     /\ request.functionCode = frame.functionCode
                     /\ Sub32(now, request.timestamp) < PairingWindowMs
       IN \A reg \in {dm.registers[k] : k \in 1..Len(dm.registers)} :
            ChangeRule(before, after, reg,
                       /\ paired
                       /\ Decoded(reg, frame.functionCode,
                                  request.startRegister,
                                  frame.byteCount \div 2))

\* C23: for every decoded reading of a named register, from a polled
\* response as well as from an observed one, onValueChange is called exactly
\* once if the cached value was invalid or differs from the new value by
\* more than 0.0001, and is not called otherwise.
C23_NotifyOnChange == dm.mapped => ActiveChangeRule /\ PassiveChangeRule

\* The addresses the unknown-register map holds
UnknownAddrs == DOMAIN dm.unknownU16

\* C29: the unknown-register map never holds more than 512 entries; no
\* step removes an entry, and when the map is full no step adds one (a word
\* for a new address is dropped).
C29_UnknownCap ==
  /\ [](Cardinality(UnknownAddrs) <= 512)
  /\ [][/\ UnknownAddrs \subseteq DOMAIN dm'.unknownU16
        /\ Cardinality(UnknownAddrs) = 512
             => DOMAIN dm'.unknownU16 = UnknownAddrs]_vars

\* C29 witness: the map is full and the last step was a response to a scan
\* that starts at an address the map does not hold: its words were dropped.
C29_Witness ==
  /\ Cardinality(UnknownAddrs) = 512
  /\ dm.op.kind = "observed" /\ ~dm.op.isRequest
  /\ dm.lastSeenRequests[DeviceUnit].present
  /\ dm.lastSeenRequests[DeviceUnit].startRegister >= MAX_REGS_PER_READ
  /\ dm.lastSeenRequests[DeviceUnit].startRegister \notin UnknownAddrs

\* An observed response is paired with the last request seen for its unit
Paired(frame) ==
  LET request == dm.lastSeenRequests[frame.unitId]
  IN /\ dm.mapped
     /\ frame.unitId = DeviceUnit
     /\ ~frame.isException
     /\ frame.functionCode \in {FC3, FC4}
     /\ request.present
     /\ request.functionCode = frame.functionCode
     /\ Sub32(now, request.timestamp) < PairingWindowMs

\* The address of word i (from 0) of a response paired with the last
\* request, and the addresses of the register definitions of the device
WordAddress(frame, i) ==
  (dm.lastSeenRequests[frame.unitId].startRegister + i) % 65536

DefinedAddrs ==
  UNION {reg.address .. (reg.address + reg.length - 1) :
           reg \in {dm.registers[k] : k \in 1..Len(dm.registers)}}

\* C30 as stated: after a paired response every word whose address no
\* definition covers is in the unknown-register map under its address,
\* unless the map is full.
C30_UncoveredStored ==
  \A frame \in UnknownResponses :
    LET after == handleObservedFrame(dm, frame, FALSE, now).unknownU16
    IN Paired(frame) =>
         \A i \in 0..(frame.byteCount \div 2 - 1) :
           WordAddress(frame, i) \notin DefinedAddrs =>
             \/ /\ WordAddress(frame, i) \in DOMAIN after
                /\ after[WordAddress(frame, i)] = ResponseWord(frame.data, i)
             \/ Cardinality(DOMAIN after) >= 512

\* C30 amended: if a paired response holds no reading of a definition, its
\* words are stored under their addresses for the longest prefix of the
\* response with which the map holds at most 512 entries, and the other
\* entries stay; if it holds a reading, the map stays as it is.
C30_StoredWhenNothingMatched ==
  \A frame \in UnknownResponses :
    LET request == dm.lastSeenRequests[frame.unitId]
        count == frame.byteCount \div 2
        after == handleObservedFrame(dm, frame, FALSE, now).unknownU16
        matched ==
          \E k \in 1..Len(dm.registers) :
            Decoded(dm.registers[k], frame.functionCode,
                    request.startRegister, count)
        Prefix(n) == {WordAddress(frame, i) : i \in 0..(n - 1)}
        new == {i \in 0..(count - 1) : WordAddress(frame, i) \notin UnknownAddrs}
        fits == {n \in 0..count :
                   Cardinality(UnknownAddrs)
                     + Cardinality({i \in new : i < n}) <= 512}
        longest == CHOOSE n \in fits : \A m \in fits : m <= n
    IN Paired(frame) =>
         IF matched THEN after = dm.unknownU16
         ELSE /\ DOMAIN after = UnknownAddrs \cup Prefix(longest)
              /\ \A i \in 0..(longest - 1) :
                   after[WordAddress(frame, i)] = ResponseWord(frame.data, i)
              /\ \A address \in UnknownAddrs \ Prefix(longest) :
                   after[address] = dm.unknownU16[address]

\* C30 witness: the last step was a response to a scan of addresses without
\* definitions, and of its words the map holds those up to the cap: the
\* first of them but not the last, in a full map.
C30_Witness ==
  /\ dm.op.kind = "observed" /\ ~dm.op.isRequest
  /\ dm.lastSeenRequests[DeviceUnit].present
  /\ dm.lastSeenRequests[DeviceUnit].startRegister >= MAX_REGS_PER_READ
  /\ dm.lastSeenRequests[DeviceUnit].startRegister \in UnknownAddrs
  /\ (dm.lastSeenRequests[DeviceUnit].startRegister + MAX_REGS_PER_READ - 1)
       % 65536 \notin UnknownAddrs
  /\ Cardinality(UnknownAddrs) = 512

\* The requests of the scheduler that are queued or in flight
PollsPending ==
  Cardinality({i \in 1..Len(requestQueue) : requestQueue[i].cb = "poll"})
    + (IF InFlight /\ currentRequest.cb = "poll" THEN 1 ELSE 0)

\* A call of the scheduler that enqueues starts with an empty queue and
\* nothing in flight and adds one poll; a call that does not enqueue leaves
\* the queue as it is.
C27_Step ==
  ev'.schedRan =>
    /\ ev'.schedQueued # 0 =>
         /\ requestQueue = <<>> /\ ~InFlight
         /\ Len(requestQueue') = 1
         /\ requestQueue'[1].cb = "poll"
         /\ requestQueue'[1].unitId = ev'.schedQueued
    /\ ev'.schedQueued = 0 => requestQueue' = requestQueue

AttemptedRecently(u) ==
  /\ pollBatches[u].lastAttemptMs # 0
  /\ now - pollBatches[u].lastAttemptMs < 250

NextDueOf(u) ==
  IF pollBatches[u].lastPollMs = 0 THEN 0
  ELSE pollBatches[u].lastPollMs + PollIntervalMs

IsDue(u) == NextDueOf(u) <= now \/ pollBatches[u].lastPollMs = 0

\* A call of the scheduler: the batch it hands to queueReadRegisters (the
\* one whose lastAttemptMs it sets) was not attempted within the last 250
\* ms, has the smallest nextDue of these and is due; and if the engine has
\* nothing pending and some batch outside its cool-down is due, it hands one
\* to queueReadRegisters, which enqueues it unless the engine rejects it.
C28_Step ==
  ev'.schedRan =>
    /\ \A u \in Units :
         pollBatches'[u] # pollBatches[u] =>
           /\ ~AttemptedRecently(u)
           /\ \A v \in Units :
                ~AttemptedRecently(v) => NextDueOf(u) <= NextDueOf(v)
           /\ IsDue(u)
           /\ pollBatches'[u].lastAttemptMs = now
           /\ ev'.schedQueued \in {0, u}
    /\ ev'.schedQueued # 0 => pollBatches'[ev'.schedQueued].lastPollMs = now
    /\ ( /\ requestQueue = <<>> /\ ~InFlight
         /\ \E u \in Units : ~AttemptedRecently(u) /\ IsDue(u) )
       => \E u \in Units :
            /\ pollBatches'[u] # pollBatches[u]
            /\ ev'.schedQueued = u \/ stats'.queueOverflows > stats.queueOverflows

\* C28: the batch the scheduler enqueues has the smallest nextDue among the
\* batches not attempted within the last 250 ms and is due; when the engine
\* has nothing pending and such a batch is due, the scheduler enqueues one
\* (the engine admitting it).
C28_EarliestDueBatch == [][C28_Step]_vars

\* C28 witness: unit B's poll was rejected and never sent, unit A was
\* polled and is due again; the scheduler has just enqueued the poll of B,
\* whose nextDue is 0.
C28_Witness ==
  /\ ev.schedQueued = UnitB
  /\ pollBatches[UnitB].lastPollMs = now
  /\ pollBatches[UnitA].lastPollMs # 0
  /\ pollBatches[UnitA].lastPollMs + PollIntervalMs <= now
  /\ stats.queueOverflows > 0

\* ------------------------------------------------------------------------
\* SpecRoundTrip: callers enqueue reads of units A and B with function code
\* 3 or 4, start registers whose bytes differ and are 0x00 or 0xFF and
\* quantities at both ends of 1..125; the engine transmits them, the bytes
\* come back on RX as an echo, no unit answers, and another master's request
\* is seen on the bus.
\* ------------------------------------------------------------------------
RoundTripMaxTime == 2000

\* The number of requests callers enqueue
RoundTripRequests == 1

RoundTripStarts == {0, 255, 256, 65535}

RoundTripQuantities == {1, MAX_REGS_PER_READ}

\* Unit ids a request is encoded for: both ends of 1..247 and two between
RoundTripUnits == {UnitA, UnitB, 17, MAX_RTU_UNIT_ID}

\* The bytes the engine transmitted for the request it has in flight
EchoBytes ==
  ReadRequestBytes(currentRequest.unitId, currentRequest.functionCode,
                   currentRequest.startRegister, currentRequest.quantity)

\* What one call of loop() finds in the RX buffer
RoundTripRxBuffers ==
  {<<>>, ReadRequestBytes(UnitB, FC4, 256, 3)}
    \cup (IF InFlight THEN {EchoBytes} ELSE {})

RoundTripEnqueue ==
  \E u \in Units, fc \in {FC3, FC4}, start \in RoundTripStarts,
     qty \in RoundTripQuantities :
    /\ requestQueue = <<>> /\ ~waitingForResponse
    /\ queueReadRegisters(u, fc, start, qty, "user", FALSE, RoundTripRequests)
    /\ ev' = EmptyEv
    /\ UNCHANGED <<pollBatches, tx, loopCounter, web>>

RoundTripTick ==
  \E buf \in RoundTripRxBuffers : ByteTick(buf, now, {"fast", "none"})

RoundTripAdvanceTime == AdvanceTime(BytesTimeStep, RoundTripMaxTime)

NextRoundTrip == RoundTripEnqueue \/ RoundTripTick \/ RoundTripAdvanceTime

SpecRoundTrip == Init /\ [][NextRoundTrip]_vars

\* C31: for every read request (FC3/FC4, unit 1..247, quantity 1..125,
\* any start register) the bytes sendRequest and sendFrame transmit (unit,
\* function code, start and quantity big-endian, CRC low byte first), put
\* into the RX buffer, are taken by the extractor as one frame of 8 bytes
\* that is CRC-valid, is classified as a request and carries the same unit,
\* function code, start register and quantity; the whole run of
\* processReceivedData over the bytes of the request in flight hands on
\* exactly that one frame. (Checked for the request in flight and for the
\* same request sent to the other unit ids.)
C31_RequestRoundTrip ==
  InFlight =>
    /\ \A u \in RoundTripUnits :
         \A bytes \in {ReadRequestBytes(u, currentRequest.functionCode,
                                        currentRequest.startRegister,
                                        currentRequest.quantity)} :
           \A x \in {ExtractAt(EngineState, bytes, 0, now)} :
             /\ Len(bytes) = 8
             /\ x.len = 8
             /\ x.frame.isValid /\ x.frame.isRequest /\ ~x.frame.isException
             /\ x.frame.unitId = u
             /\ x.frame.functionCode = currentRequest.functionCode
             /\ getStartRegister(x.frame.data) = currentRequest.startRegister
             /\ getQuantity(x.frame.data) = currentRequest.quantity
    /\ \A after \in {processReceivedData(EngineState, EchoBytes, now, now)} :
         /\ Len(after.rx.emitted) = 1
         /\ after.rx.advances = <<8>>
         /\ after.rx.emitted[1] =
              ExtractAt(EngineState, EchoBytes, 0, now).frame

\* C31 witness: the engine transmitted the read of 125 input registers from
\* 0xFFFF of unit B, and the 8 bytes came back on RX in this call of loop()
\* and were taken as the request the engine has in flight.
C31_Witness ==
  /\ InFlight /\ ev.echoSeen
  /\ currentRequest.unitId = UnitB /\ currentRequest.functionCode = FC4
  /\ currentRequest.startRegister = 65535
  /\ currentRequest.quantity = MAX_REGS_PER_READ

\* ------------------------------------------------------------------------
\* C32: crcErrors per run of the extractor
\* ------------------------------------------------------------------------
\* The index i of processReceivedData after its loop over a run whose turns
\* advanced it by advances
RECURSIVE EndIndex(_)
EndIndex(advances) ==
  IF advances = <<>> THEN 0 ELSE Head(advances) + EndIndex(Tail(advances))

\* sawNoise of processReceivedData: some turn skipped one byte
sawNoise(rx) == \E k \in 1..Len(rx.advances) : rx.advances[k] = 1

\* By how much one call of processReceivedData over buf raises
\* _stats.crcErrors, rx being the record of its run: nothing for a buffer of
\* fewer than 4 bytes, one for every CRC-invalid frame handed on, and one
\* more when bytes are left over behind the last turn or when noise was
\* skipped and no frame was extracted
crcErrorsRaised(rx, buf) ==
  IF Len(buf) < 4 THEN 0
  ELSE Cardinality({k \in 1..Len(rx.emitted) : ~rx.emitted[k].isValid})
       + (IF EndIndex(rx.advances) < Len(buf)
             \/ (sawNoise(rx) /\ Len(rx.emitted) = 0)
          THEN 1 ELSE 0)

\* RX buffers made of CRC-valid frames only (clean), and RX buffers with
\* bytes that belong to no frame: a zero byte (no unit id) before a frame,
\* zero bytes behind a frame, zero bytes only
CrcBuffers ==
  { [clean |-> TRUE, bytes |-> ReadRequestBytes(UnitB, FC3, 0, 2)],
    [clean |-> TRUE, bytes |-> BusExchange],
    [clean |-> TRUE, bytes |-> ReadResponseBytes(UnitA, FC3, <<0, 256>>)],
    [clean |-> FALSE, bytes |-> <<0>> \o ReadRequestBytes(UnitB, FC3, 0, 2)],
    [clean |-> FALSE, bytes |-> <<0, 0>> \o ReadRequestBytes(UnitB, FC3, 0, 2)],
    [clean |-> FALSE, bytes |-> ReadRequestBytes(UnitB, FC3, 0, 2) \o <<0, 0>>],
    [clean |-> FALSE, bytes |-> <<0, 0, 0, 0, 0, 0>>] }

\* C32 (as claimed): one run of the extractor over a buffer with left-over
\* bytes or any skipped noise byte raises crcErrors by exactly one, however
\* many noise bytes were skipped and whether or not frames were extracted
\* from the buffer as well; a run over a buffer made only of CRC-valid
\* frames does not raise it.
C32_CrcErrorsOnce ==
  \A b \in CrcBuffers :
    \A after \in {processReceivedData(EngineState, b.bytes, now, now)} :
      IF b.clean
      THEN crcErrorsRaised(after.rx, b.bytes) = 0
      ELSE crcErrorsRaised(after.rx, b.bytes) = 1

\* ------------------------------------------------------------------------
\* SpecSerial: the engine is constructed with a character format and a baud
\* rate (standard rates, and rates next to and above 19200), then bytes are
\* read and loop() declares the bus silent.
\* ------------------------------------------------------------------------
\* A serial configuration of the UART: data bits, parity, stop bits
SerialConfig(data, parity, stop) == [data |-> data, parity |-> parity, stop |-> stop]

SERIAL_8N1 == SerialConfig(8, "N", 1)

SERIAL_8E1 == SerialConfig(8, "E", 1)

SERIAL_8O1 == SerialConfig(8, "O", 1)

SERIAL_8N2 == SerialConfig(8, "N", 2)

SERIAL_8E2 == SerialConfig(8, "E", 2)

SERIAL_8O2 == SerialConfig(8, "O", 2)

\* The formats with 8 data bits, which Modbus RTU uses
SerialConfigs ==
  {SERIAL_8N1, SERIAL_8E1, SERIAL_8O1, SERIAL_8N2, SERIAL_8E2, SERIAL_8O2}

SerialBaudRates ==
  {1200, 2400, 4800, BaudRate, 19200, 19201, 20000, 23999, 24000, 38400, 115200}

\* The bits on the wire for one character of a format: start, data, parity
\* and stop bits
FormatBits(config) ==
  1 + config.data + (IF config.parity = "N" THEN 0 ELSE 1) + config.stop

\* bitsPerChar of the constructor
bitsPerChar(config) ==
  IF config \in {SERIAL_8E2, SERIAL_8O2} THEN 12
  ELSE IF config \in {SERIAL_8E1, SERIAL_8O1, SERIAL_8N2} THEN 11
  ELSE 10

\* _charTimeUs of the constructor
charTimeUs(config, baudRate) == (bitsPerChar(config) * 1000000) \div baudRate

\* Mutant: the fixed silence is used from 19200 baud on
silenceTimeUs_From19200(config, baudRate) ==
  IF baudRate >= 19200 THEN 1750 ELSE (charTimeUs(config, baudRate) * 35) \div 10

\* _silenceTimeUs of the constructor
silenceTimeUs(config, baudRate) ==
  IF baudRate > 19200 THEN 1750 ELSE (charTimeUs(config, baudRate) * 35) \div 10

\* The micro-second state after the constructor and begin(): the state of
\* TxBegin with the configuration, the derived times and _busSilent
SerialBegin(config, baudRate) ==
  [pc |-> "idle", micros |-> 0, available |-> 0, nowUs |-> 0,
   serialWasEmpty |-> TRUE, serialEmptySinceUs |-> 0, lastByteTime |-> 0,
   startUs |-> 0, lastRxUs |-> 0, seenActivityUs |-> 0, arrived |-> 0,
   config |-> config, baudRate |-> baudRate,
   charTimeUs |-> charTimeUs(config, baudRate),
   silenceTimeUs |-> silenceTimeUs(config, baudRate),
   busSilent |-> TRUE]

\* The longest time without a byte, in quarters of a character time
SerialMaxQuarters == 16

InitSerial ==
  /\ now = 0
  /\ requestQueue = <<>>
  /\ currentRequest = NoRequest
  /\ hasPendingRequest = FALSE
  /\ waitingForResponse = FALSE
  /\ requestSentTime = 0
  /\ backoffByUnit = [u \in Units |-> DefaultBackoff]
  /\ lastRequestPerUnit = [u \in Units |-> NoSeenRequest]
  /\ pollBatches = [u \in Units |-> NewBatch]
  /\ \E config \in SerialConfigs, baudRate \in SerialBaudRates :
       tx = SerialBegin(config, baudRate)
  /\ loopCounter = 0
  /\ nextId = 1
  /\ completions = << >>
  /\ currentValues = [u \in Units |-> NewValue]
  /\ registerMaps = << >>
  /\ stats = NoStats
  /\ web = WebIdle
  /\ suspended = FALSE
  /\ dm = NoDevice
  /\ frameHistory = NoHistory
  /\ ev = EmptyEv

\* loop() reads one byte that has just arrived: _lastByteTime is the time of
\* the read and the bus is no longer silent
SerialReadByte ==
  /\ tx.micros > tx.lastByteTime \/ tx.micros = 0
  /\ tx.arrived < TxMaxBytes
  /\ tx' = [tx EXCEPT !.lastByteTime = tx.micros, !.busSilent = FALSE,
                      !.serialWasEmpty = FALSE, !.seenActivityUs = tx.micros,
                      !.arrived = @ + 1]
  /\ UNCHANGED <<now, requestQueue, currentRequest, hasPendingRequest,
                 waitingForResponse, requestSentTime, backoffByUnit,
                 lastRequestPerUnit, pollBatches, loopCounter, nextId, completions, currentValues, registerMaps, stats, web, suspended, dm, frameHistory, ev>>

\* loop() without a byte to read: the bus is declared silent when more than
\* _silenceTimeUs have passed since the last byte
SerialSilenceCheck ==
  /\ ~tx.busSilent
  /\ tx.micros - tx.lastByteTime > tx.silenceTimeUs
  /\ tx' = [tx EXCEPT !.busSilent = TRUE, !.nowUs = tx.micros]
  /\ UNCHANGED <<now, requestQueue, currentRequest, hasPendingRequest,
                 waitingForResponse, requestSentTime, backoffByUnit,
                 lastRequestPerUnit, pollBatches, loopCounter, nextId, completions, currentValues, registerMaps, stats, web, suspended, dm, frameHistory, ev>>

\* A quarter of a character time passes
SerialElapse ==
  /\ tx.micros - tx.lastByteTime < SerialMaxQuarters * (tx.charTimeUs \div 4)
  /\ tx' = [tx EXCEPT !.micros = @ + tx.charTimeUs \div 4]
  /\ UNCHANGED <<now, requestQueue, currentRequest, hasPendingRequest,
                 waitingForResponse, requestSentTime, backoffByUnit,
                 lastRequestPerUnit, pollBatches, loopCounter, nextId, completions, currentValues, registerMaps, stats, web, suspended, dm, frameHistory, ev>>

NextSerial == SerialReadByte \/ SerialSilenceCheck \/ SerialElapse

SpecSerial == InitSerial /\ [][NextSerial]_vars

\* max(3.5 x charTime, 1750) in whole microseconds
MaxSilenceUs(charTime) ==
  IF (charTime * 35) \div 10 > 1750 THEN (charTime * 35) \div 10 ELSE 1750

\* C33 (as claimed): for every baud rate and character format the required
\* silence is max(3.5 x charTimeUs, 1750) microseconds, where charTimeUs is
\* bitsPerChar x 1000000 / baud (integer division) and bitsPerChar counts
\* the start, data, parity and stop bits of the configured format.
C33_SilenceIsMax ==
  /\ tx.charTimeUs = (FormatBits(tx.config) * 1000000) \div tx.baudRate
  /\ tx.silenceTimeUs = MaxSilenceUs(tx.charTimeUs)

\* C33 (amended): charTimeUs is bitsPerChar x 1000000 / baud (integer
\* division) with the start, data, parity and stop bits of the format as
\* bitsPerChar; the required silence is charTimeUs x 35 / 10 (integer
\* division) up to 19200 baud and the fixed 1750 microseconds above 19200
\* baud; that is max(3.5 x charTimeUs, 1750) at every baud rate up to 19200
\* and from 24000 on; and the bus is declared silent only when more than
\* the required silence has passed since the last byte was read.
C33_SilenceByBaud ==
  /\ tx.charTimeUs = (FormatBits(tx.config) * 1000000) \div tx.baudRate
  /\ tx.silenceTimeUs = IF tx.baudRate > 19200 THEN 1750
                        ELSE (tx.charTimeUs * 35) \div 10
  /\ (tx.baudRate <= 19200 \/ tx.baudRate >= 24000)
       => tx.silenceTimeUs = MaxSilenceUs(tx.charTimeUs)
  /\ (tx.busSilent /\ tx.arrived > 0 /\ tx.nowUs > 0)
       => tx.nowUs - tx.lastByteTime > tx.silenceTimeUs

\* C33 witness: at 20000 baud with 8E2 (12 bits, 600 us per character) the
\* bus was declared silent less than 3.5 character times (2100 us) after the
\* last byte
C33_Witness ==
  /\ tx.baudRate = 20000 /\ tx.config = SERIAL_8E2
  /\ tx.busSilent /\ tx.arrived > 0
  /\ tx.nowUs - tx.lastByteTime > 1750
  /\ tx.nowUs - tx.lastByteTime < (tx.charTimeUs * 35) \div 10

\* ------------------------------------------------------------------------
\* SpecHistory: the extractor records frame after frame while the
\* millisecond counter passes from 2^32 - 1 to 0 and on. The uint32_t
\* counter is held as its two's complement value, so that 2^32 - 1 is -1.
\* ------------------------------------------------------------------------
\* The number of frames recorded
HistoryMaxFrames == 22

\* The last value of the millisecond counter
HistoryMaxTime == 1

\* The frame recorded as number k: a response of unit A with the register k
HistoryFrame(k) == ObservedResponse(UnitA, FC3, <<k>>)

InitHistory ==
  /\ now = -1
  /\ requestQueue = <<>>
  /\ currentRequest = NoRequest
  /\ hasPendingRequest = FALSE
  /\ waitingForResponse = FALSE
  /\ requestSentTime = 0
  /\ backoffByUnit = [u \in Units |-> DefaultBackoff]
  /\ lastRequestPerUnit = [u \in Units |-> NoSeenRequest]
  /\ pollBatches = [u \in Units |-> NewBatch]
  /\ tx = TxBegin
  /\ loopCounter = 0
  /\ nextId = 1
  /\ completions = << >>
  /\ currentValues = [u \in Units |-> NewValue]
  /\ registerMaps = << >>
  /\ stats = NoStats
  /\ web = WebIdle
  /\ suspended = FALSE
  /\ dm = NoDevice
  /\ frameHistory = NoHistory
  /\ ev = EmptyEv

\* The extractor hands on a frame whose first byte was read now
HistoryRecord ==
  /\ Len(frameHistory.recorded) < HistoryMaxFrames
  /\ frameHistory' =
       recordFrameToHistory(
         frameHistory,
         [timestamp |-> now,
          frame |-> HistoryFrame(Len(frameHistory.recorded) + 1)])
  /\ UNCHANGED <<now, requestQueue, currentRequest, hasPendingRequest,
                 waitingForResponse, requestSentTime, backoffByUnit,
                 lastRequestPerUnit, pollBatches, tx, loopCounter, nextId,
                 completions, currentValues, registerMaps, stats, web,
                 suspended, dm, ev>>

\* A millisecond passes
HistoryAdvanceTime ==
  /\ now < HistoryMaxTime
  /\ now' = now + 1
  /\ UNCHANGED <<requestQueue, currentRequest, hasPendingRequest,
                 waitingForResponse, requestSentTime, backoffByUnit,
                 lastRequestPerUnit, pollBatches, tx, loopCounter, nextId,
                 completions, currentValues, registerMaps, stats, web,
                 suspended, dm, frameHistory, ev>>

NextHistory == HistoryRecord \/ HistoryAdvanceTime

SpecHistory == InitHistory /\ [][NextHistory]_vars

\* The last n elements of a sequence
LastOf(s, n) == SubSeq(s, Len(s) - n + 1, Len(s))

\* C34 (as claimed): after n frames were recorded getRecentFrames returns
\* exactly the last min(n, 20) of them, oldest first, each with the content
\* it was recorded with.
C34_LastFramesReturned ==
  getRecentFrames(frameHistory) =
    LastOf(frameHistory.recorded,
           MinOf(Len(frameHistory.recorded), FRAME_HISTORY_SIZE))

\* What the code keeps of C34: the frames returned are the last min(n, 20)
\* recorded ones without those whose timestamp is 0. (Not a claim's formula.)
C34_NonZeroReturned ==
  getRecentFrames(frameHistory) =
    SelectSeq(LastOf(frameHistory.recorded,
                     MinOf(Len(frameHistory.recorded), FRAME_HISTORY_SIZE)),
              LAMBDA e : e.timestamp # 0)

\* ------------------------------------------------------------------------
\* C35: the counters of the engine's own requests
\* ------------------------------------------------------------------------
\* 1 while a request is in flight, else 0
InFlightCount == IF InFlight THEN 1 ELSE 0

\* C35 (step): a step raises ownRequestsSent by as much as it raises
\* ownRequestsSuccess + ownRequestsFailed + (1 if a request is in flight),
\* and raises timeouts by no more than ownRequestsFailed.
C35_Step ==
  /\ ev'.ownRequestsSent + InFlightCount
       = ev'.ownRequestsSuccess + ev'.ownRequestsFailed + InFlightCount'
  /\ ev'.timeouts <= ev'.ownRequestsFailed
  /\ ev'.ownRequestsSent \in {0, 1}

\* C35: between two calls of loop() ownRequestsSent = ownRequestsSuccess +
\* ownRequestsFailed + (1 if a request is in flight, else 0) and timeouts <=
\* ownRequestsFailed: all counters are 0 and nothing is in flight after
\* construction, and every call of loop() and every enqueue changes both
\* sides by the same amount.
C35_CountersBalance ==
  /\ (now = 0 /\ nextId = 1) => ~InFlight
  /\ [][C35_Step]_vars

\* C35 witness: the unit answered the request in flight with an exception,
\* which is counted as failed without a timeout, and nothing is in flight.
C35_Witness ==
  /\ ev.released.happened /\ ev.released.frame.isException
  /\ ev.ownRequestsFailed = 1 /\ ev.timeouts = 0 /\ ev.ownRequestsSent = 0
  /\ ~InFlight

\* ------------------------------------------------------------------------
\* SpecOwnPoll: the device manager with the schema of SpecValues. Another
\* master's requests to the unit are observed, and the polls of the
\* manager's own batches are answered: the engine calls the completion of
\* the poll and then hands the same frame to the frame observer.
\* ------------------------------------------------------------------------
OwnMaxTime == 4000

\* Requests of another master to the units
OwnRequests ==
  { ObservedRequest(UnitA, FC3, 0, 2), ObservedRequest(UnitA, FC3, 5, 1),
    ObservedRequest(UnitB, FC3, 5, 1) }

\* Register contents a unit answers with
OwnWords == {<<0>>, <<1>>, <<0, 0>>, <<3, 1>>}

\* processReceivedData for the response to the poll of batch b in flight:
\* the completion of the poll is called with success = !isException, then
\* the frame callback with the same frame
PollAnswered(b, response) ==
  /\ dm.mapped
  /\ dm' = [handleObservedFrame(
              PollCompletion([dm EXCEPT !.notified = <<>>, !.counted = NoCount],
                             b.functionCode, b.pollIntervalMs, b.startAddress,
                             b.quantity, ~response.isException, response),
              response, FALSE, now)
              EXCEPT !.op = [kind |-> "answered",
                             success |-> ~response.isException,
                             functionCode |-> b.functionCode,
                             startAddress |-> b.startAddress,
                             words |-> IF response.isException THEN <<>>
                                       ELSE RegisterWords(response.data)]]
  /\ UNCHANGED <<now, requestQueue, currentRequest, hasPendingRequest,
                 waitingForResponse, requestSentTime, backoffByUnit,
                 lastRequestPerUnit, pollBatches, tx, loopCounter, nextId,
                 completions, currentValues, registerMaps, stats, web,
                 suspended, frameHistory, ev>>

OwnLoad == LoadDevice(ValuesSchema)

OwnObserveRequest == \E frame \in OwnRequests : ObserveFrame(frame, TRUE)

OwnPollResponse ==
  \E i \in 1..Len(dm.plan), words \in OwnWords :
    /\ Len(words) = dm.plan[i].quantity
    /\ PollAnswered(dm.plan[i],
                    ObservedResponse(DeviceUnit, dm.plan[i].functionCode, words))

OwnPollException ==
  \E i \in 1..Len(dm.plan) :
    PollAnswered(dm.plan[i],
                 ObservedException(DeviceUnit, dm.plan[i].functionCode, 2))

OwnAdvanceTime == AdvanceTime(PairingWindowMs, OwnMaxTime)

NextOwnPoll ==
  \/ OwnLoad
  \/ OwnObserveRequest
  \/ OwnPollResponse
  \/ OwnPollException
  \/ OwnAdvanceTime

SpecOwnPoll == Init /\ [][NextOwnPoll]_vars

\* C36 (as claimed): a poll of the device manager that receives a response
\* changes the counters of its device exactly once: successCount rises by
\* one for a normal response, errorCount by one for an exception response,
\* and neither counter changes otherwise.
C36_CountedOnce ==
  dm.op.kind = "answered" =>
    dm.counted = IF dm.op.success THEN [success |-> 1, error |-> 0]
                 ELSE [success |-> 0, error |-> 1]

\* C37 (step, as claimed): when the response to a poll has been handled,
\* every value of the device that changed belongs to a register of the
\* polled function code whose words lie inside the polled range, and is the
\* value decoded from the words of the response at that register's own
\* address. (The schema has no two registers that share an address.)
C37_Step ==
  dm'.op.kind = "answered" /\ dm'.op.success =>
    \A i \in 1..Len(dm.registers) :
      LET reg == dm.registers[i]
          offset == reg.address - dm'.op.startAddress
      IN dm'.values[reg.name] # dm.values[reg.name] =>
           /\ reg.functionCode = dm'.op.functionCode
           /\ offset >= 0
           /\ offset + reg.length <= Len(dm'.op.words)
           /\ dm'.values[reg.name] =
                [valid |-> TRUE,
                 value |-> convertRawToValue(
                             reg, SubSeq(dm'.op.words, offset + 1,
                                         offset + reg.length))]

\* C37 (as claimed): every valid value of the device was decoded from the
\* words that were read for that register's own address: the start address
\* used for decoding a response is that of the request the response
\* answers, also when it answers the engine's own poll and another
\* master's request to the same unit was observed shortly before.
C37_OwnAddressDecoded == [][C37_Step]_vars

\* ------------------------------------------------------------------------
\* SpecEncode: callers enqueue raw reads whose function code comes from the
\* caller (web and MQTT raw read): read holding registers, or 0x05, which
\* sendRequest does not encode. loop() is called for ever, the bus is silent
\* again and again and millis() advances, which the two fairness conditions
\* express. Callers stop enqueueing after EncodeRequests requests; the clock
\* goes on past EncodeMaxTime only while the request in flight has not yet
\* reached its timeout.
\* ------------------------------------------------------------------------
EncodeMaxTime == 1001

EncodeRequests == 2

EncodeFcs == {FC3, WRITE_SINGLE_COIL}

EncodeEnqueue ==
  /\ now <= EncodeMaxTime
  /\ QueueHasRoom
  /\ \E u \in Units, fc \in EncodeFcs :
       queueReadRegisters(u, fc, 0, 1, "user", FALSE, EncodeRequests)
  /\ ev' = EmptyEv
  /\ UNCHANGED <<pollBatches, tx, loopCounter, web>>

EncodeTick ==
  \E rx \in LiveRxBuffers, gap \in {"fast", "none"} : CountedTick(rx, gap, <<>>)

\* loop() finds the bus silent and nothing in the RX buffer
EncodeSilentTick == CountedTick(<<>>, "fast", <<>>)

EncodeAdvanceTime ==
  IF waitingForResponse /\ Sub32(now, requestSentTime) <= ResponseTimeoutMs
  THEN AdvanceTime(QueueTimeStep, now + QueueTimeStep)
  ELSE AdvanceTime(QueueTimeStep, EncodeMaxTime)

NextEncode == EncodeEnqueue \/ EncodeTick \/ EncodeAdvanceTime

SpecEncode ==
  /\ Init /\ [][NextEncode]_vars
  /\ WF_vars(EncodeSilentTick) /\ WF_vars(EncodeAdvanceTime)

\* C38 (as claimed): every accepted request eventually leaves the queue: a
\* queued request that the engine cannot encode is eventually removed and
\* does not block the requests behind it, so that a queue that holds
\* requests is empty again later.
C38_QueueDrains == (requestQueue # <<>>) ~> (requestQueue = <<>>)

\* What the code keeps of C38: a queue whose requests can all be encoded is
\* empty again later. (Not a claim's formula.)
C38_EncodableDrains ==
  (requestQueue # <<>>
   /\ \A i \in 1..Len(requestQueue) : sendRequest(requestQueue[i]))
    ~> (requestQueue = <<>>
        \/ \E i \in 1..Len(requestQueue) : ~sendRequest(requestQueue[i]))

\* ------------------------------------------------------------------------
\* SpecLate: a caller reads unit A, one request at a time. The first request
\* (LateFirst) reads two holding registers from address 0; the later ones
\* read other ranges. The slave holds SlaveWord(fc, a) at address a and
\* answers a request with the words of the request's addresses: in time, or
\* late, after the engine has given the request up. Of the late answers the
\* specification follows those to the first request.
\* ------------------------------------------------------------------------
LateMaxTime == 2002

LateRequests == 2

\* The word the slave holds at address a of the table of function code fc
SlaveWord(fc, a) == 256 * fc + a + 1

SlaveWords(fc, start, qty) == [i \in 1..qty |-> SlaveWord(fc, start + i - 1)]

\* The slave's answer to a read request
SlaveReply(req) ==
  ReadResponseBytes(req.unitId, req.functionCode,
                    SlaveWords(req.functionCode, req.startRegister, req.quantity))

LateFirst == MkRequest(1, UnitA, FC3, 0, 2, <<>>, "user")

\* <<function code, start register, quantity>> of the later requests
LateReads == {<<FC3, 0, 2>>, <<FC3, 10, 2>>, <<FC3, 10, 1>>, <<FC4, 10, 2>>}

\* The first request has been transmitted and its completion not been called
FirstUnanswered ==
  /\ nextId > 1
  /\ \A i \in 1..Len(requestQueue) : requestQueue[i].id # 1
  /\ completions[1] = 0

\* A later request is in flight while the first one, given up after its
\* timeout, is still unanswered
LaterInFlight == InFlight /\ currentRequest.id > 1 /\ FirstUnanswered

LateEnqueue ==
  \E r \in (IF nextId = 1
            THEN {<<LateFirst.functionCode, LateFirst.startRegister, LateFirst.quantity>>}
            ELSE LateReads) :
    /\ requestQueue = <<>> /\ ~waitingForResponse
    /\ queueReadRegisters(UnitA, r[1], r[2], r[3], "user", FALSE, LateRequests)
    /\ ev' = EmptyEv
    /\ UNCHANGED <<pollBatches, tx, loopCounter, web>>

LateRxBuffers ==
  {<<>>}
  \cup (IF FirstUnanswered
        THEN {SlaveReply(LateFirst), ExceptionBytes(UnitA, LateFirst.functionCode, 2)}
        ELSE {})
  \cup (IF InFlight THEN {SlaveReply(currentRequest)} ELSE {})

LateTick == \E buf \in LateRxBuffers : ByteTick(buf, now, {"fast", "none"})

LateAdvanceTime == AdvanceTime(QueueTimeStep, LateMaxTime)

NextLate == LateEnqueue \/ LateTick \/ LateAdvanceTime

SpecLate == Init /\ [][NextLate]_vars

WrapLead == 800

WrapMaxTime == 600

\* How long before the start a batch was polled last
WrapAges == {PollIntervalMs - WrapLead, 400, 1200}

InitWrap ==
  /\ now = 0 - WrapLead
  /\ requestQueue = <<>>
  /\ currentRequest = NoRequest
  /\ hasPendingRequest = FALSE
  /\ waitingForResponse = FALSE
  /\ requestSentTime = 0
  /\ backoffByUnit = [u \in Units |-> DefaultBackoff]
  /\ lastRequestPerUnit = [u \in Units |-> NoSeenRequest]
  /\ pollBatches \in {[u \in Units |->
                         [lastPollMs |-> 0 - WrapLead - age[u],
                          lastAttemptMs |-> 0 - WrapLead - age[u]]] :
                      age \in [Units -> WrapAges]}
  /\ tx = TxBegin
  /\ loopCounter = 0
  /\ nextId = 1
  /\ completions = << >>
  /\ currentValues = [u \in Units |-> NewValue]
  /\ registerMaps = << >>
  /\ stats = NoStats
  /\ web = WebIdle
  /\ suspended = FALSE
  /\ dm = NoDevice
  /\ frameHistory = NoHistory
  /\ ev = EmptyEv

WrapLoop == DeviceManagerLoop(FALSE)

WrapTick == \E rx \in PollRxBuffers : Tick(rx, "fast", <<>>)

WrapAdvanceTime == AdvanceTime(PollTimeStep, WrapMaxTime)

NextWrap == WrapLoop \/ PollEnqueue \/ WrapTick \/ WrapAdvanceTime

SpecWrap == InitWrap /\ [][NextWrap]_vars

\* Milliseconds since the batch of unit u was polled last (every batch has
\* been polled in SpecWrap): now - lastPollMs modulo 2^32
SinceLastPoll(u) == now - pollBatches[u].lastPollMs

\* C40 (as claimed): across the wrap of the millisecond counter a run of
\* the scheduler that finds the engine idle queues a poll only for a batch
\* whose poll interval has elapsed since it was polled last (also for a
\* batch polled at uptime 0), and it queues a poll when the interval of
\* some batch outside its retry cool-down has elapsed.
C40_Step ==
  (ev'.schedRan /\ getPendingRequestCount = 0) =>
    /\ \A u \in Units :
         ev'.schedQueued = u => SinceLastPoll(u) >= PollIntervalMs
    /\ (\E u \in Units :
          /\ SinceLastPoll(u) >= PollIntervalMs
          /\ now - pollBatches[u].lastAttemptMs >= QUEUE_RETRY_COOLDOWN_MS)
       => ev'.schedQueued # 0

C40_DueAcrossWrap == [][C40_Step]_vars

====
